---- MODULE Spec2Model ----
(***************************************************************************)
(* Order lifecycle and payment reconciliation of the Sheshri backend:      *)
(* controllers/order.js (src/unnamed/part_003) and controllers/payment.js. *)
(* Each request handler is one action; a handler runs to completion.       *)
(***************************************************************************)
EXTENDS Integers, Sequences, FiniteSets, Bags, TLC

(* ------------------------------ bounds -------------------------------- *)
\* number of order documents ever created (fresh ids 1..MaxOrders)
MaxOrders == 2
\* number of order documents ever created in the payment and cancellation
\* specifications
MaxPaidOrders == 1
\* longest orderItems list of a create request
MaxItems == 2
\* largest qty of one line item
MaxQty == 2
\* the clock runs from 1 to MaxTime
MaxTime == 2
\* longest trackingHistory a payment request may still append to
MaxHist == 2
\* number of requests that may be in flight at the same time
MaxRequests == 2
\* the clock of the return specification runs from 1 to MaxReturnTime
MaxReturnTime == 17

(* --------------------------- program constants ------------------------ *)
\* "product.countInStock <= 5" in sendNewOrderNotifications
LowStockThreshold == 5

\* "diffDays > 7" in requestReturn
ReturnWindowDays == 7
\* "1000 * 60 * 60 * 24": the length of a day, in clock units of half a day
DayLength == 2

\* a date field that was never set
NoDate == 0
\* req.params.id / relatedOrder when there is none
NoOrder == 0

(* ------------------------------ catalog ------------------------------- *)
\* _id of the primary products
ProductIds == {"p1"}
\* _id of the nested add-on sub-documents
AddOnIds == {"a1"}
\* an id that resolves to neither
UnknownIds == {"zz"}
ItemRefs == ProductIds \cup AddOnIds \cup UnknownIds

\* initial countInStock of the primary product: enough for each line item of
\* MaxQty but not for two of them
ScarceStock == {2 * MaxQty - 1}
\* initial countInStock of the primary product: above the low-stock threshold
AmpleStock == {LowStockThreshold + 2}

(* ------------------------------- users -------------------------------- *)
\* the User collection: role and notificationPreferences ("absent" when the
\* preference object or the flag is missing)
User ==
  [u \in {"u1", "u2", "adm1", "adm2"} |->
     CASE u = "u1"   -> [role |-> "customer", orderAlerts |-> "absent", lowStockAlerts |-> "absent"]
       [] u = "u2"   -> [role |-> "customer", orderAlerts |-> "absent", lowStockAlerts |-> "absent"]
       [] u = "adm1" -> [role |-> "admin", orderAlerts |-> "absent", lowStockAlerts |-> "absent"]
       [] u = "adm2" -> [role |-> "admin", orderAlerts |-> "false", lowStockAlerts |-> "false"]]

Users == DOMAIN User
\* User.find({ role: 'admin' }), in collection order
Admins == <<"adm1", "adm2">>
\* the principals that place orders
Buyers == {"u1"}
\* the principals that send the other requests: the buyer, another customer,
\* an admin
Requesters == {"u1", "u2", "adm1"}

VARIABLES
  products,       \* Product collection: _id -> document
  orders,         \* Order collection: _id -> document
  nextId,         \* the next fresh Order _id
  notifications,  \* Notification collection, a bag of documents
  now,            \* Date.now()
  env,            \* process.env, paymentConfig and whether Notification.create
                  \* rejects, fixed at start-up
  res,            \* the response of the last request
  created,        \* history: the last create, while only its cancel followed
  inflight,       \* the requests suspended at an await: slot -> handler position
                  \* and local variables
  issued          \* the provider's orders: the ids razorpayInstance.orders.create
                  \* returned, each with the receipt it was created for

vars == <<products, orders, nextId, notifications, now, env, res, created, inflight, issued>>

(* --------------------------- Product collection ----------------------- *)
\* Product.findById(id): the document, or none
ProductFindById(prods, id) == id \in DOMAIN prods

\* Product.findOne({ "addOnItems._id": id }): the products holding add-on id
AddOnParents(prods, id) == {p \in DOMAIN prods : id \in DOMAIN prods[p].addOnItems}

\* mutant of IncStock: countInStock stops at zero
IncStockFloorZero(prods, id, delta) ==
  IF ProductFindById(prods, id)
  THEN [prods EXCEPT ![id].countInStock = IF @ + delta < 0 THEN 0 ELSE @ + delta]
  ELSE IF AddOnParents(prods, id) # {}
       THEN LET p == CHOOSE q \in AddOnParents(prods, id) : TRUE
            IN  [prods EXCEPT ![p].addOnItems[id].countInStock =
                                IF @ + delta < 0 THEN 0 ELSE @ + delta]
       ELSE prods

\* mutant of IncStock: the update matches only a document with enough stock
IncStockIfEnough(prods, id, delta) ==
  IF ProductFindById(prods, id)
  THEN [prods EXCEPT ![id].countInStock = IF @ + delta < 0 THEN @ ELSE @ + delta]
  ELSE IF AddOnParents(prods, id) # {}
       THEN LET p == CHOOSE q \in AddOnParents(prods, id) : TRUE
            IN  [prods EXCEPT ![p].addOnItems[id].countInStock =
                                IF @ + delta < 0 THEN @ ELSE @ + delta]
       ELSE prods

\* findByIdAndUpdate(id, {$inc: {countInStock: delta}}), and when no product
\* has that _id, findOneAndUpdate({"addOnItems._id": id},
\* {$inc: {"addOnItems.$.countInStock": delta}}); a no-op when neither matches
IncStock(prods, id, delta) ==
  IF ProductFindById(prods, id)
  THEN [prods EXCEPT ![id].countInStock = @ + delta]
  ELSE IF AddOnParents(prods, id) # {}
       THEN LET p == CHOOSE q \in AddOnParents(prods, id) : TRUE
            IN  [prods EXCEPT ![p].addOnItems[id].countInStock = @ + delta]
       ELSE prods

\* countInStock of the item id resolves to (0 when it resolves to nothing)
StockOf(prods, id) ==
  IF ProductFindById(prods, id) THEN prods[id].countInStock
  ELSE IF AddOnParents(prods, id) # {}
       THEN prods[CHOOSE q \in AddOnParents(prods, id) : TRUE].addOnItems[id].countInStock
       ELSE 0

(* ------------------------------ line items ---------------------------- *)
LineItems == [product : ItemRefs, qty : 1..MaxQty]

RECURSIVE SeqsUpTo(_, _)
SeqsUpTo(S, n) ==
  IF n = 0 THEN {<<>>}
  ELSE LET shorter == SeqsUpTo(S, n - 1)
       IN  shorter \cup {Append(s, x) : s \in {t \in shorter : Len(t) = n - 1}, x \in S}

\* the orderItems a create request may carry
ItemLists == SeqsUpTo(LineItems, MaxItems)

\* total qty of the line items that reference id
RECURSIVE QtyOf(_, _)
QtyOf(items, id) ==
  IF items = <<>> THEN 0
  ELSE (IF Head(items).product = id THEN Head(items).qty ELSE 0) + QtyOf(Tail(items), id)

\* the stock check of one line item: 0 when it passes, else the status the
\* controller sets before it throws
CheckItem(prods, item) ==
  IF ProductFindById(prods, item.product)
  THEN IF ~prods[item.product].inStock \/ prods[item.product].countInStock < item.qty
       THEN 400 ELSE 0
  ELSE IF AddOnParents(prods, item.product) # {}
       THEN LET p == CHOOSE q \in AddOnParents(prods, item.product) : TRUE
                a == prods[p].addOnItems[item.product]
            IN  IF ~a.inStock \/ a.countInStock < item.qty THEN 400 ELSE 0
       ELSE 404

\* mutant of CheckStock: only the first line item is checked
CheckStockFirstOnly(prods, items) ==
  IF items = <<>> THEN 0 ELSE CheckItem(prods, Head(items))

\* "for (const item of orderItems)" of the check: the first failure stops it
RECURSIVE CheckStock(_, _)
CheckStock(prods, items) ==
  IF items = <<>> THEN 0
  ELSE IF CheckItem(prods, Head(items)) # 0 THEN CheckItem(prods, Head(items))
       ELSE CheckStock(prods, Tail(items))

\* mutant of DecrementStock: one $inc per distinct item, not per line item
RECURSIVE DecrementStockDistinct(_, _)
DecrementStockDistinct(prods, items) ==
  IF items = <<>> THEN prods
  ELSE DecrementStockDistinct(
         IncStock(prods, Head(items).product, 0 - Head(items).qty),
         SelectSeq(Tail(items), LAMBDA it : it.product # Head(items).product))

\* "Update product stock": one $inc of -qty per line item, in order
RECURSIVE DecrementStock(_, _)
DecrementStock(prods, items) ==
  IF items = <<>> THEN prods
  ELSE DecrementStock(IncStock(prods, Head(items).product, 0 - Head(items).qty), Tail(items))

\* mutant of RestoreStock: only primary products are restored
RECURSIVE RestoreStockMainOnly(_, _)
RestoreStockMainOnly(prods, items) ==
  IF items = <<>> THEN prods
  ELSE RestoreStockMainOnly(
         IF ProductFindById(prods, Head(items).product)
         THEN IncStock(prods, Head(items).product, Head(items).qty)
         ELSE prods,
         Tail(items))

\* "Restore stock" of cancelOrder: one $inc of +qty per line item
RECURSIVE RestoreStock(_, _)
RestoreStock(prods, items) ==
  IF items = <<>> THEN prods
  ELSE RestoreStock(IncStock(prods, Head(items).product, Head(items).qty), Tail(items))

\* mutant of AbandonRestoreStock: only primary products are restored
RECURSIVE AbandonRestoreStockMainOnly(_, _)
AbandonRestoreStockMainOnly(prods, items) ==
  IF items = <<>> THEN prods
  ELSE AbandonRestoreStockMainOnly(
         IF ProductFindById(prods, Head(items).product)
         THEN IncStock(prods, Head(items).product, Head(items).qty)
         ELSE prods,
         Tail(items))

\* "Restore stock" of abandonOrder
RECURSIVE AbandonRestoreStock(_, _)
AbandonRestoreStock(prods, items) ==
  IF items = <<>> THEN prods
  ELSE AbandonRestoreStock(IncStock(prods, Head(items).product, Head(items).qty), Tail(items))

(* ------------------------------ Order model --------------------------- *)
\* the paymentMethod strings a create request may carry
PaymentMethods == {"COD", "Online", "Razorpay"}

\* String.prototype.toLowerCase on those strings
ToLowerCase(m) ==
  CASE m = "COD" -> "cod"
    [] m = "Online" -> "online"
    [] m = "Razorpay" -> "razorpay"
    [] OTHER -> m

\* mutant of IsOnlinePayment: the comparison is case-sensitive
IsOnlinePaymentCaseSensitive(paymentMethod) ==
  /\ paymentMethod # ""
  /\ paymentMethod = "online" \/ paymentMethod = "razorpay"

\* isOnlinePayment of addOrderItems
IsOnlinePayment(paymentMethod) ==
  /\ paymentMethod # ""
  /\ ToLowerCase(paymentMethod) = "online" \/ ToLowerCase(paymentMethod) = "razorpay"

\* paymentResult before any payment
NoPaymentResult ==
  [id |-> "", status |-> "", update_time |-> NoDate, razorpay_order_id |-> "",
   payment_method |-> ""]

\* the schema defaults of a new Order document
OrderDefaults ==
  [isPaid |-> FALSE, paidAt |-> NoDate, paymentResult |-> NoPaymentResult,
   isDelivered |-> FALSE, deliveredAt |-> NoDate,
   trackingStatus |-> "pending", trackingHistory |-> <<>>,
   returnStatus |-> "None", returnReason |-> "", returnAdminNote |-> ""]

\* new Order({ orderItems, user: req.user.id, ..., paymentMethod, ... })
NewOrder(id, user, orderItems, paymentMethod) ==
  [f \in {"_id", "user", "orderItems", "paymentMethod"} \cup DOMAIN OrderDefaults |->
     CASE f = "_id" -> id
       [] f = "user" -> user
       [] f = "orderItems" -> orderItems
       [] f = "paymentMethod" -> paymentMethod
       [] OTHER -> OrderDefaults[f]]

\* Order.findById(id): whether the document exists
OrderFindById(id) == id \in DOMAIN orders

(* ---------------------------- notifications --------------------------- *)
Notification(user, title, relatedOrder) ==
  [user |-> user, title |-> title, relatedOrder |-> relatedOrder]

\* mutant of AdminsNotified: only an explicitly enabled flag notifies
AdminsNotifiedWhenEnabled(flag) ==
  {Admins[i] : i \in {j \in 1..Len(Admins) : User[Admins[j]][flag] = "true"}}

\* "for (const admin of admins) if (admin.notificationPreferences?.<flag> !== false)":
\* the admins a fan-out notifies
AdminsNotified(flag) ==
  {Admins[i] : i \in {j \in 1..Len(Admins) : User[Admins[j]][flag] # "false"}}

\* the low-stock pass of sendNewOrderNotifications over order.orderItems
RECURSIVE LowStockAlerts(_, _)
LowStockAlerts(prods, items) ==
  IF items = <<>> THEN EmptyBag
  ELSE (IF /\ ProductFindById(prods, Head(items).product)
           /\ prods[Head(items).product].countInStock <= LowStockThreshold
        THEN SetToBag({Notification(a, "Low Stock Alert!", NoOrder) :
                         a \in AdminsNotified("lowStockAlerts")})
        ELSE EmptyBag)
       (+) LowStockAlerts(prods, Tail(items))

\* sendNewOrderNotifications(order, user): the documents it creates
\* (the first Notification.create that rejects ends the try block)
sendNewOrderNotifications(prods, order, user) ==
  IF env.notificationsDown THEN EmptyBag ELSE
  SetToBag({Notification(user, "Order Placed!", order._id)})
  (+) SetToBag({Notification(a, "New Order Received!", order._id) :
                  a \in AdminsNotified("orderAlerts")})
  (+) LowStockAlerts(prods, order.orderItems)

(* ------------------------------ responses ----------------------------- *)
\* res.status(status) followed by a response (thrown = FALSE) or by
\* "throw new Error(message)" (thrown = TRUE)
Response(op, id, status, thrown, message) ==
  [op |-> op, id |-> id, status |-> status, thrown |-> thrown, message |-> message,
   modifiedCount |-> 0]

\* the message of the Error the stock check throws with a status
CheckMessage(status) ==
  IF status = 404 THEN "Product not found" ELSE "Insufficient stock for product"

\* the message of the Error a rejected Notification.create throws
NotificationError == "Notification validation failed"

\* the status property of "new Error(message)": there is none
NoStatus == 0

\* the Error object a controller throws after res.status(...)
ThrownError(r) == [status |-> NoStatus, message |-> r.message]

\* the global error handler of server.js: "err.status || 500",
\* "err.message || 'Something went wrong!'", then res.status(status).json(...)
GlobalErrorHandler(err) ==
  [status |-> IF err.status # NoStatus THEN err.status ELSE 500,
   message |-> IF err.message # "" THEN err.message ELSE "Something went wrong!"]

\* the request slots, and a slot with no request in flight
Slots == 1..MaxRequests
Idle == [op |-> "idle"]

\* no request is suspended
Quiescent == \A r \in Slots : inflight[r] = Idle

\* no create is being followed
NoCreate == [id |-> NoOrder, cancelled |-> FALSE, before |-> <<>>]

(* --------------------------- POST /api/orders ------------------------- *)
addOrderItems(user, orderItems, paymentMethod) ==
  /\ IF Len(orderItems) = 0
     THEN /\ res' = Response("addOrderItems", NoOrder, 400, TRUE, "No order items")
          /\ created' = NoCreate
          /\ UNCHANGED <<products, orders, nextId, notifications>>
     ELSE IF CheckStock(products, orderItems) # 0
     THEN /\ res' = Response("addOrderItems", NoOrder, CheckStock(products, orderItems), TRUE,
                          CheckMessage(CheckStock(products, orderItems)))
          /\ created' = NoCreate
          /\ UNCHANGED <<products, orders, nextId, notifications>>
     ELSE LET createdOrder == NewOrder(nextId, user, orderItems, paymentMethod)
              prods == DecrementStock(products, orderItems)
          IN  /\ orders' = [id \in DOMAIN orders \cup {nextId} |->
                              IF id = nextId THEN createdOrder ELSE orders[id]]
              /\ nextId' = nextId + 1
              /\ products' = prods
              /\ notifications' =
                   IF ~IsOnlinePayment(paymentMethod)
                   THEN notifications (+) sendNewOrderNotifications(prods, createdOrder, user)
                   ELSE notifications
              /\ res' = Response("addOrderItems", nextId, 201, FALSE, "")
              /\ created' = [id |-> nextId, cancelled |-> FALSE, before |-> products]
  /\ UNCHANGED <<now, env, inflight, issued>>

(* ------------------------ PUT /api/orders/:id/cancel ------------------ *)
\* one trackingHistory entry
HistoryEntry(status, message, location, timestamp, updatedBy) ==
  [status |-> status, message |-> message, location |-> location,
   timestamp |-> timestamp, updatedBy |-> updatedBy]

\* mutant of CancelRejected: a shipped order is not tested for
CancelRejectedUnlessShipped(trackingStatus) ==
  trackingStatus = "delivered" \/ trackingStatus = "cancelled"

\* the trackingStatus values on which cancelOrder throws
CancelRejected(trackingStatus) ==
  trackingStatus = "delivered" \/ trackingStatus = "shipped" \/ trackingStatus = "cancelled"

\* mutant of CancelledOrder: the refund is flagged whether or not the order is paid
CancelledOrderAlwaysRefunds(order, user) ==
  [order EXCEPT
     !.trackingStatus = "cancelled",
     !.paymentResult = [@ EXCEPT !.status = "refund_pending", !.update_time = now],
     !.trackingHistory =
        Append(@, HistoryEntry("cancelled",
                               "Order cancelled. Refund initiated to original payment source.",
                               "", NoDate, user))]

\* mutant of CancelledOrder: the refund takes the payment back
CancelledOrderUnpaid(order, user) ==
  [order EXCEPT
     !.trackingStatus = "cancelled",
     !.isPaid = FALSE,
     !.paymentResult =
        IF order.isPaid
        THEN [@ EXCEPT !.status = "refund_pending", !.update_time = now]
        ELSE @,
     !.trackingHistory =
        Append(@, HistoryEntry("cancelled",
                               IF order.isPaid
                               THEN "Order cancelled. Refund initiated to original payment source."
                               ELSE "Order cancelled by user",
                               "", NoDate, user))]

\* the order document cancelOrder saves
CancelledOrder(order, user) ==
  [order EXCEPT
     !.trackingStatus = "cancelled",
     !.paymentResult =
        IF order.isPaid
        THEN [@ EXCEPT !.status = "refund_pending", !.update_time = now]
        ELSE @,
     !.trackingHistory =
        Append(@, HistoryEntry("cancelled",
                               IF order.isPaid
                               THEN "Order cancelled. Refund initiated to original payment source."
                               ELSE "Order cancelled by user",
                               "", NoDate, user))]

\* the notifications cancelOrder creates after the save
CancelNotifications(order) ==
  SetToBag({Notification(order.user, "Order Cancelled", order._id)})
  (+) SetToBag({Notification(a, "Order Cancelled by User", order._id) :
                  a \in AdminsNotified("orderAlerts")})

cancelOrder(user, id) ==
  /\ IF ~OrderFindById(id)
     THEN /\ res' = Response("cancelOrder", id, 404, TRUE, "Order not found")
          /\ created' = NoCreate
          /\ UNCHANGED <<products, orders, notifications>>
     ELSE IF orders[id].user # user /\ User[user].role # "admin"
     THEN /\ res' = Response("cancelOrder", id, 401, TRUE, "Not authorized to cancel this order")
          /\ created' = NoCreate
          /\ UNCHANGED <<products, orders, notifications>>
     ELSE IF CancelRejected(orders[id].trackingStatus)
     THEN /\ res' = Response("cancelOrder", id, 400, TRUE, "Cannot cancel order")
          /\ created' = NoCreate
          /\ UNCHANGED <<products, orders, notifications>>
     ELSE /\ products' = RestoreStock(products, orders[id].orderItems)
          /\ orders' = [orders EXCEPT ![id] = CancelledOrder(orders[id], user)]
          /\ IF env.notificationsDown
             THEN /\ res' = Response("cancelOrder", id, 200, TRUE, NotificationError)
                  /\ UNCHANGED notifications
             ELSE /\ notifications' = notifications (+) CancelNotifications(orders[id])
                  /\ res' = Response("cancelOrder", id, 200, FALSE, "")
          /\ created' = IF created.id = id /\ ~created.cancelled
                        THEN [created EXCEPT !.cancelled = TRUE]
                        ELSE NoCreate
  /\ UNCHANGED <<nextId, now, env, inflight, issued>>

(* ------------------------ PUT /api/orders/:id/abandon ----------------- *)
abandonOrder(user, id) ==
  /\ IF OrderFindById(id)
     THEN /\ products' = AbandonRestoreStock(products, orders[id].orderItems)
          /\ orders' = [o \in DOMAIN orders \ {id} |-> orders[o]]
          /\ res' = Response("abandonOrder", id, 200, FALSE, "Order record permanently deleted and stock restored")
     ELSE /\ res' = Response("abandonOrder", id, 404, TRUE, "Order not found")
          /\ UNCHANGED <<products, orders>>
  /\ created' = NoCreate
  /\ UNCHANGED <<nextId, notifications, now, env, inflight, issued>>

(* ------------------------- PUT /api/orders/:id/pay -------------------- *)
\* paymentResult built from req.body {id, status, update_time, email_address}
PaidResult(body) ==
  [NoPaymentResult EXCEPT !.id = body.id, !.status = body.status,
                          !.update_time = body.update_time]

updateOrderToPaid(user, id, body) ==
  /\ IF OrderFindById(id)
     THEN /\ orders' = [orders EXCEPT ![id].isPaid = TRUE, ![id].paidAt = now,
                                      ![id].paymentResult = PaidResult(body)]
          /\ res' = Response("updateOrderToPaid", id, 200, FALSE, "")
     ELSE /\ res' = Response("updateOrderToPaid", id, 404, TRUE, "Order not found")
          /\ UNCHANGED orders
  /\ created' = NoCreate
  /\ UNCHANGED <<products, nextId, notifications, now, env, inflight, issued>>

(* ------------------------ PUT /api/orders/bulk-update ----------------- *)
\* the tracking states updateOrdersStatus copies into trackingStatus
BulkTrackingStatuses == {"pending", "confirmed", "processing", "shipped", "out_for_delivery"}

\* mutant of BulkUpdated: "delivered" leaves trackingStatus alone
BulkUpdatedFlagsOnly(order, status) ==
  IF status = "delivered"
  THEN [order EXCEPT !.isDelivered = TRUE, !.deliveredAt = now]
  ELSE IF status = "paid"
  THEN [order EXCEPT !.isPaid = TRUE, !.paidAt = now]
  ELSE IF status \in BulkTrackingStatuses
  THEN [order EXCEPT !.trackingStatus = status]
  ELSE order

\* mutant of BulkUpdated: any other status is copied into trackingStatus too
BulkUpdatedAnyStatus(order, status) ==
  IF status = "delivered"
  THEN [order EXCEPT !.isDelivered = TRUE, !.deliveredAt = now, !.trackingStatus = "delivered"]
  ELSE IF status = "paid"
  THEN [order EXCEPT !.isPaid = TRUE, !.paidAt = now]
  ELSE [order EXCEPT !.trackingStatus = status]

\* { $set: updateData } applied to one order document
BulkUpdated(order, status) ==
  IF status = "delivered"
  THEN [order EXCEPT !.isDelivered = TRUE, !.deliveredAt = now, !.trackingStatus = "delivered"]
  ELSE IF status = "paid"
  THEN [order EXCEPT !.isPaid = TRUE, !.paidAt = now]
  ELSE IF status \in BulkTrackingStatuses
  THEN [order EXCEPT !.trackingStatus = status]
  ELSE order

\* result.modifiedCount: the matched documents the update changed
ModifiedCount(orderIds, status) ==
  Cardinality({id \in orderIds \cap DOMAIN orders : BulkUpdated(orders[id], status) # orders[id]})

updateOrdersStatus(user, orderIds, status) ==
  /\ IF User[user].role # "admin"
     THEN /\ res' = Response("updateOrdersStatus", NoOrder, 403, FALSE, "Admin access only!")
          /\ UNCHANGED orders
     ELSE IF orderIds = {}
     THEN /\ res' = Response("updateOrdersStatus", NoOrder, 400, TRUE, "No orders selected")
          /\ UNCHANGED orders
     ELSE /\ orders' = [id \in DOMAIN orders |->
                          IF id \in orderIds THEN BulkUpdated(orders[id], status) ELSE orders[id]]
          /\ res' = [Response("updateOrdersStatus", NoOrder, 200, FALSE, "")
                     EXCEPT !.modifiedCount = ModifiedCount(orderIds, status)]
  /\ created' = NoCreate
  /\ UNCHANGED <<products, nextId, notifications, now, env, inflight, issued>>

(* ------------------- createPaymentOrder: the provider order ----------- *)
\* the ids the provider gives its orders
ProviderOrderIds == {"order_A", "order_B"}

\* the ids the simulator gives its orders
MockOrderIds == {"mock_order"}

\* res.json({ success: true, orderId: razorpayOrder.id, ..., mode })
PaymentOrderResponse(id, orderId, mode) ==
  [op |-> "createPaymentOrder", id |-> id, status |-> 200, thrown |-> FALSE, message |-> "",
   modifiedCount |-> 0, orderId |-> orderId, mode |-> mode]

\* body {amount, orderId}; razorpayOrder is the order the provider creates
\* with receipt orderId, mockOrder the one the simulator creates
createPaymentOrder(user, body, razorpayOrder, mockOrder) ==
  /\ IF body.amount = 0 \/ body.orderId = NoOrder
     THEN /\ res' = Response("createPaymentOrder", body.orderId, 400, FALSE,
                              "Amount and order ID are required")
          /\ UNCHANGED issued
     ELSE IF ~OrderFindById(body.orderId)
     THEN /\ res' = Response("createPaymentOrder", body.orderId, 404, FALSE, "Order not found")
          /\ UNCHANGED issued
     ELSE IF orders[body.orderId].user # user
     THEN /\ res' = Response("createPaymentOrder", body.orderId, 403, FALSE, "Not authorized")
          /\ UNCHANGED issued
     ELSE IF env.live
     THEN /\ razorpayOrder.id \notin {i.id : i \in issued}
          /\ razorpayOrder.receipt = body.orderId
          /\ issued' = issued \cup {razorpayOrder}
          /\ res' = PaymentOrderResponse(body.orderId, razorpayOrder.id, "live")
     ELSE IF env.mode = "mock"
     THEN /\ res' = PaymentOrderResponse(body.orderId, mockOrder, "mock")
          /\ UNCHANGED issued
     ELSE /\ res' = Response("createPaymentOrder", body.orderId, 500, FALSE,
                              "Payment gateway not configured")
          /\ UNCHANGED issued
  /\ created' = NoCreate
  /\ UNCHANGED <<products, orders, nextId, notifications, now, env, inflight>>

(* ------------------------- POST /api/payment/verify ------------------- *)
\* crypto.createHmac('sha256', secret).update(message).digest('hex'): equal
\* digests only for equal secret and message
Hmac(secret, message) == <<secret, message>>

\* no razorpay_signature field, no x-razorpay-signature header
NoSignature == <<>>

\* razorpay_order_id + '|' + razorpay_payment_id
SignedText(razorpay_order_id, razorpay_payment_id) == <<razorpay_order_id, razorpay_payment_id>>

\* RAZORPAY_KEY_SECRET
KeySecret == "rzp_secret"

\* verifyMockPayment({orderId, paymentId, signature}): what the simulator may answer
MockVerifications == [success : BOOLEAN, paymentId : {"mock_pay"}]

\* mutant of Verification: the digest is compared without the key
VerificationAnyKey(body, mock) ==
  IF env.live /\ body.razorpay_signature # NoSignature
  THEN [isValid |-> body.razorpay_signature[2] =
                      SignedText(body.razorpay_order_id, body.razorpay_payment_id),
        paymentId |-> body.razorpay_payment_id]
  ELSE IF env.mode = "mock"
  THEN [isValid |-> mock.success, paymentId |-> mock.paymentId]
  ELSE [isValid |-> FALSE, paymentId |-> body.razorpay_payment_id]

\* isValid and paymentId of verifyPayment, given the simulator's answer
Verification(body, mock) ==
  IF env.live /\ body.razorpay_signature # NoSignature
  THEN [isValid |-> body.razorpay_signature =
                      Hmac(KeySecret, SignedText(body.razorpay_order_id, body.razorpay_payment_id)),
        paymentId |-> body.razorpay_payment_id]
  ELSE IF env.mode = "mock"
  THEN [isValid |-> mock.success, paymentId |-> mock.paymentId]
  ELSE [isValid |-> FALSE, paymentId |-> body.razorpay_payment_id]

\* mutant of VerifiedOrder: the order is also confirmed, as the webhook does
VerifiedOrderConfirms(order, paymentId, razorpay_order_id) ==
  [order EXCEPT
     !.isPaid = TRUE,
     !.paidAt = now,
     !.paymentResult = [id |-> paymentId, status |-> "completed", update_time |-> now,
                        razorpay_order_id |-> razorpay_order_id, payment_method |-> "razorpay"],
     !.trackingStatus = "confirmed",
     !.trackingHistory =
        Append(@, HistoryEntry("pending", "Order placed and payment received", "Online", now, ""))]

\* mutant of VerifiedOrder: the history is rewritten to the one new entry
VerifiedOrderRewritesHistory(order, paymentId, razorpay_order_id) ==
  [order EXCEPT
     !.isPaid = TRUE,
     !.paidAt = now,
     !.paymentResult = [id |-> paymentId, status |-> "completed", update_time |-> now,
                        razorpay_order_id |-> razorpay_order_id, payment_method |-> "razorpay"],
     !.trackingHistory =
        <<HistoryEntry("pending", "Order placed and payment received", "Online", now, "")>>]

\* the order document verifyPayment saves when isValid
VerifiedOrder(order, paymentId, razorpay_order_id) ==
  [order EXCEPT
     !.isPaid = TRUE,
     !.paidAt = now,
     !.paymentResult = [id |-> paymentId, status |-> "completed", update_time |-> now,
                        razorpay_order_id |-> razorpay_order_id, payment_method |-> "razorpay"],
     !.trackingHistory =
        Append(@, HistoryEntry("pending", "Order placed and payment received", "Online", now, ""))]

\* createPaymentNotification(order.user, order, 'success') and
\* createOrderNotification(order.user, order, 'order_created')
PaymentNotifications(order) ==
  IF env.notificationsDown THEN EmptyBag ELSE
  SetToBag({Notification(order.user, "payment:success", order._id)})
  (+) SetToBag({Notification(order.user, "order:order_created", order._id)})

verifyPayment(user, body, mock) ==
  /\ IF ~OrderFindById(body.orderId)
     THEN /\ res' = Response("verifyPayment", body.orderId, 404, FALSE, "Order not found")
          /\ UNCHANGED <<orders, notifications>>
     ELSE IF Verification(body, mock).isValid
     THEN LET order == VerifiedOrder(orders[body.orderId], Verification(body, mock).paymentId,
                                     body.razorpay_order_id)
          IN  /\ orders' = [orders EXCEPT ![body.orderId] = order]
              /\ notifications' = notifications
                                  (+) sendNewOrderNotifications(products, order, user)
                                  (+) PaymentNotifications(order)
              /\ res' = Response("verifyPayment", body.orderId, 200, FALSE, "Payment verified")
     ELSE /\ res' = Response("verifyPayment", body.orderId, 400, FALSE, "Invalid payment signature")
          /\ UNCHANGED <<orders, notifications>>
  /\ created' = NoCreate
  /\ UNCHANGED <<products, nextId, now, env, inflight, issued>>

(* ------------------------ POST /api/payment/webhook ------------------- *)
\* JSON.stringify(req.body) of a webhook body {event, payload.payment.entity}
Stringify(body) == <<body.event, body.id, body.order_id, body.orderId>>

\* mutant of CapturedOrder: trackingStatus is left as it was
CapturedOrderKeepsStatus(order, body) ==
  [order EXCEPT
     !.isPaid = TRUE,
     !.paidAt = now,
     !.paymentResult = [id |-> body.id, status |-> "completed", update_time |-> now,
                        razorpay_order_id |-> body.order_id, payment_method |-> "razorpay"],
     !.trackingHistory =
        Append(@, HistoryEntry("confirmed", "Order confirmed via Webhook", "Online", now, ""))]

\* the order document handleWebhook saves on payment.captured
CapturedOrder(order, body) ==
  [order EXCEPT
     !.isPaid = TRUE,
     !.paidAt = now,
     !.paymentResult = [id |-> body.id, status |-> "completed", update_time |-> now,
                        razorpay_order_id |-> body.order_id, payment_method |-> "razorpay"],
     !.trackingStatus = "confirmed",
     !.trackingHistory =
        Append(@, HistoryEntry("confirmed", "Order confirmed via Webhook", "Online", now, ""))]

\* mutant of WebhookApplies: the order is not tested for isPaid
WebhookAppliesToPaid(body) ==
  /\ body.event = "payment.captured"
  /\ OrderFindById(body.orderId)

\* "if (order && !order.isPaid)"
WebhookApplies(body) ==
  /\ body.event = "payment.captured"
  /\ OrderFindById(body.orderId)
  /\ ~orders[body.orderId].isPaid

\* mutant of WebhookRejection: the digest is never compared
WebhookRejectionNoCompare(signature, body) ==
  IF signature = NoSignature \/ env.webhookSecret = ""
  THEN "Signature and secret are required for webhook"
  ELSE ""

\* the message of the 400 answer of handleWebhook, "" when the signature passes
WebhookRejection(signature, body) ==
  IF signature = NoSignature \/ env.webhookSecret = ""
  THEN "Signature and secret are required for webhook"
  ELSE IF signature # Hmac(env.webhookSecret, Stringify(body))
  THEN "Invalid webhook signature"
  ELSE ""

handleWebhook(signature, body) ==
  /\ IF WebhookRejection(signature, body) # ""
     THEN /\ res' = Response("handleWebhook", NoOrder, 400, FALSE, WebhookRejection(signature, body))
          /\ UNCHANGED orders
     ELSE /\ orders' = IF WebhookApplies(body)
                       THEN [orders EXCEPT ![body.orderId] = CapturedOrder(orders[body.orderId], body)]
                       ELSE orders
          /\ res' = Response("handleWebhook", NoOrder, 200, FALSE, "ok")
  /\ created' = NoCreate
  /\ UNCHANGED <<products, nextId, notifications, now, env, inflight, issued>>

(* -------------------- PUT /api/orders/:id/request-return -------------- *)
\* Math.abs
Abs(x) == IF x < 0 THEN -x ELSE x

\* diffDays: Math.floor(Math.abs(currentDate - deliveredDate) / (1000*60*60*24))
DiffDays(deliveredAt, currentDate) == Abs(currentDate - deliveredAt) \div DayLength

\* mutant of ReturnWindowExpired: the seventh day is already too late
ReturnWindowExpiredOnLastDay(deliveredAt, currentDate) ==
  /\ deliveredAt # NoDate
  /\ DiffDays(deliveredAt, currentDate) >= ReturnWindowDays

\* "if (order.deliveredAt) { ... if (diffDays > 7) ..."
ReturnWindowExpired(deliveredAt, currentDate) ==
  /\ deliveredAt # NoDate
  /\ DiffDays(deliveredAt, currentDate) > ReturnWindowDays

\* mutant of ReturnRejection: an admin passes the owner test, as in cancelOrder
ReturnRejectionUnlessAdmin(order, user) ==
  IF order.user # user /\ User[user].role # "admin"
  THEN [status |-> 401, message |-> "Not authorized to request return for this order"]
  ELSE IF order.trackingStatus # "delivered"
  THEN [status |-> 400, message |-> "Return can only be requested for delivered orders"]
  ELSE IF ReturnWindowExpired(order.deliveredAt, now)
  THEN [status |-> 400,
        message |-> "Return request can only be submitted within 7 days of delivery"]
  ELSE IF order.returnStatus # "None"
  THEN [status |-> 400, message |-> "Return request already exists for this order"]
  ELSE [status |-> 0, message |-> ""]

\* the status and message with which requestReturn throws for an existing
\* order, status 0 when it accepts
ReturnRejection(order, user) ==
  IF order.user # user
  THEN [status |-> 401, message |-> "Not authorized to request return for this order"]
  ELSE IF order.trackingStatus # "delivered"
  THEN [status |-> 400, message |-> "Return can only be requested for delivered orders"]
  ELSE IF ReturnWindowExpired(order.deliveredAt, now)
  THEN [status |-> 400,
        message |-> "Return request can only be submitted within 7 days of delivery"]
  ELSE IF order.returnStatus # "None"
  THEN [status |-> 400, message |-> "Return request already exists for this order"]
  ELSE [status |-> 0, message |-> ""]

\* the notifications requestReturn creates after the save
ReturnNotifications(order) ==
  SetToBag({Notification(a, "New Return Request", order._id) :
              a \in AdminsNotified("orderAlerts")})

requestReturn(user, id, reason) ==
  /\ IF ~OrderFindById(id)
     THEN /\ res' = Response("requestReturn", id, 404, TRUE, "Order not found")
          /\ UNCHANGED <<orders, notifications>>
     ELSE IF ReturnRejection(orders[id], user).status # 0
     THEN /\ res' = Response("requestReturn", id, ReturnRejection(orders[id], user).status, TRUE,
                             ReturnRejection(orders[id], user).message)
          /\ UNCHANGED <<orders, notifications>>
     ELSE /\ orders' = [orders EXCEPT ![id].returnStatus = "Requested",
                                      ![id].returnReason = reason]
          /\ IF env.notificationsDown /\ AdminsNotified("orderAlerts") # {}
             THEN /\ res' = Response("requestReturn", id, 200, TRUE, NotificationError)
                  /\ UNCHANGED notifications
             ELSE /\ notifications' = notifications (+) ReturnNotifications(orders[id])
                  /\ res' = Response("requestReturn", id, 200, FALSE, "")
  /\ created' = NoCreate
  /\ UNCHANGED <<products, nextId, now, env, inflight, issued>>

(* ------------------------ PUT /api/orders/:id/return ------------------ *)
\* a field the request body does not carry
Undefined == "undefined"

\* the order document updateReturnStatus saves
ReturnUpdated(order, body) ==
  [order EXCEPT
     !.returnStatus = body.status,
     !.returnReason = IF body.reason # "" /\ body.reason # Undefined THEN body.reason ELSE @,
     !.returnAdminNote = IF body.adminNote # Undefined THEN body.adminNote ELSE @,
     !.trackingStatus = IF body.status = "Completed" THEN "returned" ELSE @]

updateReturnStatus(user, id, body) ==
  /\ IF User[user].role # "admin"
     THEN /\ res' = Response("updateReturnStatus", id, 403, FALSE, "Admin access only!")
          /\ UNCHANGED orders
     ELSE IF OrderFindById(id)
     THEN /\ orders' = [orders EXCEPT ![id] = ReturnUpdated(orders[id], body)]
          /\ res' = Response("updateReturnStatus", id, 200, FALSE, "")
     ELSE /\ res' = Response("updateReturnStatus", id, 404, TRUE, "Order not found")
          /\ UNCHANGED orders
  /\ created' = NoCreate
  /\ UNCHANGED <<products, nextId, notifications, now, env, inflight, issued>>

(* ------------- POST /api/orders, one step per awaited call ------------ *)
\* the creations in flight
Creating == {r \in Slots : inflight[r].op = "addOrderItems"}

\* the request arrives: the empty-list test, then the first Product.findById
\* is awaited
addOrderItemsReceive(r, user, orderItems, paymentMethod) ==
  /\ inflight[r] = Idle
  /\ IF Len(orderItems) = 0
     THEN /\ res' = Response("addOrderItems", NoOrder, 400, TRUE, "No order items")
          /\ UNCHANGED inflight
     ELSE /\ inflight' = [inflight EXCEPT ![r] =
                            [op |-> "addOrderItems", pc |-> "check", i |-> 1, user |-> user,
                             orderItems |-> orderItems, paymentMethod |-> paymentMethod,
                             orderId |-> NoOrder]]
          /\ UNCHANGED res
  /\ created' = NoCreate
  /\ UNCHANGED <<products, orders, nextId, notifications, now, env, issued>>

\* one iteration of the check loop: the product (or add-on) is read and tested
addOrderItemsCheck(r) ==
  /\ inflight[r].op = "addOrderItems"
  /\ inflight[r].pc = "check"
  /\ LET item == inflight[r].orderItems[inflight[r].i]
     IN  IF CheckItem(products, item) # 0
         THEN /\ res' = Response("addOrderItems", NoOrder, CheckItem(products, item), TRUE,
                                 CheckMessage(CheckItem(products, item)))
              /\ inflight' = [inflight EXCEPT ![r] = Idle]
         ELSE /\ inflight' = [inflight EXCEPT ![r] =
                                IF inflight[r].i < Len(inflight[r].orderItems)
                                THEN [@ EXCEPT !.i = @ + 1]
                                ELSE [@ EXCEPT !.pc = "save"]]
              /\ UNCHANGED res
  /\ created' = NoCreate
  /\ UNCHANGED <<products, orders, nextId, notifications, now, env, issued>>

\* "await order.save()"
addOrderItemsSave(r) ==
  /\ inflight[r].op = "addOrderItems"
  /\ inflight[r].pc = "save"
  /\ orders' = [id \in DOMAIN orders \cup {nextId} |->
                  IF id = nextId
                  THEN NewOrder(nextId, inflight[r].user, inflight[r].orderItems,
                                inflight[r].paymentMethod)
                  ELSE orders[id]]
  /\ nextId' = nextId + 1
  /\ inflight' = [inflight EXCEPT ![r] = [@ EXCEPT !.pc = "decrement", !.i = 1,
                                                   !.orderId = nextId]]
  /\ created' = NoCreate
  /\ UNCHANGED <<products, notifications, now, env, res, issued>>

\* one iteration of the stock update loop: one atomic $inc
addOrderItemsDecrement(r) ==
  /\ inflight[r].op = "addOrderItems"
  /\ inflight[r].pc = "decrement"
  /\ LET item == inflight[r].orderItems[inflight[r].i]
     IN  products' = IncStock(products, item.product, -item.qty)
  /\ inflight' = [inflight EXCEPT ![r] =
                    IF inflight[r].i < Len(inflight[r].orderItems)
                    THEN [@ EXCEPT !.i = @ + 1]
                    ELSE [@ EXCEPT !.pc = "respond"]]
  /\ created' = NoCreate
  /\ UNCHANGED <<orders, nextId, notifications, now, env, res, issued>>

\* the notifications of a cash-on-delivery order, then res.status(201).json(...)
addOrderItemsRespond(r) ==
  /\ inflight[r].op = "addOrderItems"
  /\ inflight[r].pc = "respond"
  /\ notifications' =
       IF ~IsOnlinePayment(inflight[r].paymentMethod)
       THEN notifications (+) sendNewOrderNotifications(products, orders[inflight[r].orderId],
                                                        inflight[r].user)
       ELSE notifications
  /\ res' = Response("addOrderItems", inflight[r].orderId, 201, FALSE, "")
  /\ inflight' = [inflight EXCEPT ![r] = Idle]
  /\ created' = NoCreate
  /\ UNCHANGED <<products, orders, nextId, now, env, issued>>

(* ------- payment confirmations, one step per awaited call ------------- *)
\* no document
NoDocument == [_id |-> NoOrder]

\* Order.findById(id) as a handler sees it: a copy of the stored document
Loaded(id) == IF OrderFindById(id) THEN orders[id] ELSE NoDocument

\* document.save() of a document loaded as loaded and modified to doc, applied
\* to the stored document: the assigned paths are set, the pushed
\* trackingHistory entries are appended to the stored array
Saved(stored, loaded, doc) ==
  [f \in DOMAIN stored |->
     IF f = "trackingHistory"
     THEN stored[f] \o SubSeq(doc[f], Len(loaded[f]) + 1, Len(doc[f]))
     ELSE IF doc[f] # loaded[f] THEN doc[f] ELSE stored[f]]

\* the payment confirmations in flight for order id
Confirming(id) ==
  {r \in Slots : inflight[r].op \in {"handleWebhook", "verifyPayment"}
                   /\ inflight[r].body.orderId = id}

\* the webhook arrives: the signature tests, then Order.findById is awaited
handleWebhookReceive(r, signature, body) ==
  /\ inflight[r] = Idle
  /\ IF WebhookRejection(signature, body) # ""
     THEN /\ res' = Response("handleWebhook", NoOrder, 400, FALSE,
                             WebhookRejection(signature, body))
          /\ UNCHANGED inflight
     ELSE IF body.event # "payment.captured"
     THEN /\ res' = Response("handleWebhook", NoOrder, 200, FALSE, "ok")
          /\ UNCHANGED inflight
     ELSE /\ inflight' = [inflight EXCEPT ![r] =
                            [op |-> "handleWebhook", pc |-> "load", body |-> body,
                             loaded |-> NoDocument, doc |-> NoDocument]]
          /\ UNCHANGED res
  /\ created' = NoCreate
  /\ UNCHANGED <<products, orders, nextId, notifications, now, env, issued>>

\* findById resolves: "if (order && !order.isPaid)", the assignments, then
\* order.save() is awaited
handleWebhookLoad(r) ==
  /\ inflight[r].op = "handleWebhook"
  /\ inflight[r].pc = "load"
  /\ IF WebhookApplies(inflight[r].body)
     THEN /\ inflight' = [inflight EXCEPT ![r] =
                            [@ EXCEPT !.pc = "save",
                                      !.loaded = Loaded(inflight[r].body.orderId),
                                      !.doc = CapturedOrder(Loaded(inflight[r].body.orderId),
                                                            inflight[r].body)]]
          /\ UNCHANGED res
     ELSE /\ inflight' = [inflight EXCEPT ![r] = Idle]
          /\ res' = Response("handleWebhook", NoOrder, 200, FALSE, "ok")
  /\ created' = NoCreate
  /\ UNCHANGED <<products, orders, nextId, notifications, now, env, issued>>

\* save resolves, then res.json({ status: 'ok' })
handleWebhookSave(r) ==
  /\ inflight[r].op = "handleWebhook"
  /\ inflight[r].pc = "save"
  /\ OrderFindById(inflight[r].body.orderId)
  /\ orders' = [orders EXCEPT ![inflight[r].body.orderId] =
                                 Saved(@, inflight[r].loaded, inflight[r].doc)]
  /\ res' = Response("handleWebhook", NoOrder, 200, FALSE, "ok")
  /\ inflight' = [inflight EXCEPT ![r] = Idle]
  /\ created' = NoCreate
  /\ UNCHANGED <<products, nextId, notifications, now, env, issued>>

\* the verification request arrives: Order.findById is awaited
verifyPaymentReceive(r, user, body, mock) ==
  /\ inflight[r] = Idle
  /\ inflight' = [inflight EXCEPT ![r] =
                    [op |-> "verifyPayment", pc |-> "load", user |-> user, body |-> body,
                     mock |-> mock, loaded |-> NoDocument, doc |-> NoDocument]]
  /\ created' = NoCreate
  /\ UNCHANGED <<products, orders, nextId, notifications, now, env, res, issued>>

\* findById resolves: the 404 answer, the verification, the assignments, then
\* order.save() is awaited
verifyPaymentLoad(r) ==
  /\ inflight[r].op = "verifyPayment"
  /\ inflight[r].pc = "load"
  /\ LET body == inflight[r].body
         v == Verification(body, inflight[r].mock)
     IN  IF ~OrderFindById(body.orderId)
         THEN /\ res' = Response("verifyPayment", body.orderId, 404, FALSE, "Order not found")
              /\ inflight' = [inflight EXCEPT ![r] = Idle]
         ELSE IF v.isValid
         THEN /\ inflight' = [inflight EXCEPT ![r] =
                                [@ EXCEPT !.pc = "save",
                                          !.loaded = Loaded(body.orderId),
                                          !.doc = VerifiedOrder(Loaded(body.orderId), v.paymentId,
                                                                body.razorpay_order_id)]]
              /\ UNCHANGED res
         ELSE /\ res' = Response("verifyPayment", body.orderId, 400, FALSE,
                                 "Invalid payment signature")
              /\ inflight' = [inflight EXCEPT ![r] = Idle]
  /\ created' = NoCreate
  /\ UNCHANGED <<products, orders, nextId, notifications, now, env, issued>>

\* save resolves, then the notifications and res.json(...)
verifyPaymentSave(r) ==
  /\ inflight[r].op = "verifyPayment"
  /\ inflight[r].pc = "save"
  /\ OrderFindById(inflight[r].body.orderId)
  /\ orders' = [orders EXCEPT ![inflight[r].body.orderId] =
                                 Saved(@, inflight[r].loaded, inflight[r].doc)]
  /\ notifications' = notifications
                      (+) sendNewOrderNotifications(products, inflight[r].doc, inflight[r].user)
                      (+) PaymentNotifications(inflight[r].doc)
  /\ res' = Response("verifyPayment", inflight[r].body.orderId, 200, FALSE, "Payment verified")
  /\ inflight' = [inflight EXCEPT ![r] = Idle]
  /\ created' = NoCreate
  /\ UNCHANGED <<products, nextId, now, env, issued>>

(* ------- PUT /api/orders/:id/cancel, one step per awaited call -------- *)
\* the cancel request arrives: Order.findById is awaited
cancelOrderReceive(r, user, id) ==
  /\ inflight[r] = Idle
  /\ inflight' = [inflight EXCEPT ![r] =
                    [op |-> "cancelOrder", pc |-> "load", user |-> user, id |-> id, i |-> 1,
                     loaded |-> NoDocument]]
  /\ created' = NoCreate
  /\ UNCHANGED <<products, orders, nextId, notifications, now, env, res, issued>>

\* findById resolves: the 404, 401 and 400 answers, else the first $inc of
\* the restore loop is awaited
cancelOrderLoad(r) ==
  /\ inflight[r].op = "cancelOrder"
  /\ inflight[r].pc = "load"
  /\ LET id == inflight[r].id
         user == inflight[r].user
     IN  IF ~OrderFindById(id)
         THEN /\ res' = Response("cancelOrder", id, 404, TRUE, "Order not found")
              /\ inflight' = [inflight EXCEPT ![r] = Idle]
         ELSE IF orders[id].user # user /\ User[user].role # "admin"
         THEN /\ res' = Response("cancelOrder", id, 401, TRUE,
                                 "Not authorized to cancel this order")
              /\ inflight' = [inflight EXCEPT ![r] = Idle]
         ELSE IF CancelRejected(orders[id].trackingStatus)
         THEN /\ res' = Response("cancelOrder", id, 400, TRUE, "Cannot cancel order")
              /\ inflight' = [inflight EXCEPT ![r] = Idle]
         ELSE /\ inflight' = [inflight EXCEPT ![r] =
                                [@ EXCEPT !.pc = "restore", !.loaded = Loaded(id)]]
              /\ UNCHANGED res
  /\ created' = NoCreate
  /\ UNCHANGED <<products, orders, nextId, notifications, now, env, issued>>

\* one iteration of the restore loop, over the line items of the loaded copy
cancelOrderRestore(r) ==
  /\ inflight[r].op = "cancelOrder"
  /\ inflight[r].pc = "restore"
  /\ LET items == inflight[r].loaded.orderItems
     IN  /\ products' = RestoreStock(products, <<items[inflight[r].i]>>)
         /\ inflight' = [inflight EXCEPT ![r] =
                           IF inflight[r].i < Len(items)
                           THEN [@ EXCEPT !.i = @ + 1]
                           ELSE [@ EXCEPT !.pc = "save"]]
  /\ created' = NoCreate
  /\ UNCHANGED <<orders, nextId, notifications, now, env, res, issued>>

\* the assignments and order.save(), then the notifications and the answer
cancelOrderSave(r) ==
  /\ inflight[r].op = "cancelOrder"
  /\ inflight[r].pc = "save"
  /\ OrderFindById(inflight[r].id)
  /\ LET loaded == inflight[r].loaded
         doc == CancelledOrder(loaded, inflight[r].user)
     IN  /\ orders' = [orders EXCEPT ![inflight[r].id] = Saved(@, loaded, doc)]
         /\ IF env.notificationsDown
            THEN /\ res' = Response("cancelOrder", inflight[r].id, 200, TRUE, NotificationError)
                 /\ UNCHANGED notifications
            ELSE /\ notifications' = notifications (+) CancelNotifications(loaded)
                 /\ res' = Response("cancelOrder", inflight[r].id, 200, FALSE, "")
  /\ inflight' = [inflight EXCEPT ![r] = Idle]
  /\ created' = NoCreate
  /\ UNCHANGED <<products, nextId, now, env, issued>>

(* ------------------------------- the clock ---------------------------- *)
\* time passes between requests
Tick ==
  /\ now < MaxTime
  /\ now' = now + 1
  /\ UNCHANGED <<products, orders, nextId, notifications, env, res, created, inflight, issued>>

\* time passes between the requests of the return specification
Elapse ==
  /\ now < MaxReturnTime
  /\ now' = now + 1
  /\ UNCHANGED <<products, orders, nextId, notifications, env, res, created, inflight, issued>>

(* ------------------------------- start-up ----------------------------- *)
\* the order ids a request may name: every id ever issued, and one never issued
OrderIds == 1..(MaxOrders + 1)

\* the catalog before any order: the primary product with its add-on, the
\* add-on short of MaxQty
InitProducts(stocks) ==
  {[p \in ProductIds |->
      [countInStock |-> c, inStock |-> s,
       addOnItems |-> [a \in AddOnIds |-> [countInStock |-> MaxQty - 1, inStock |-> TRUE]]]] :
     c \in stocks, s \in BOOLEAN}

\* process.env: whether RAZORPAY_KEY_ID and RAZORPAY_KEY_SECRET are set
\* (razorpayInstance), RAZORPAY_WEBHOOK_SECRET ("" when unset), paymentConfig.mode
\* the values of paymentConfig.mode
PaymentModes == {"live", "mock"}

\* credentials and webhook secret configured, the provider selected, the
\* Notification collection accepting writes
LiveEnv ==
  [live |-> TRUE, webhookSecret |-> "whsec", mode |-> "live",
   notificationsDown |-> FALSE]

\* nothing configured, the simulator selected
MockEnv ==
  [live |-> FALSE, webhookSecret |-> "", mode |-> "mock",
   notificationsDown |-> FALSE]

Envs == {LiveEnv, MockEnv}

InitDb ==
  /\ orders = <<>>
  /\ nextId = 1
  /\ notifications = EmptyBag
  /\ now = 1
  /\ res = Response("", NoOrder, 0, FALSE, "")
  /\ created = NoCreate
  /\ inflight = [r \in Slots |-> Idle]
  /\ issued = {}

(* --------------- stock: create, cancel and abandon requests ----------- *)
StockInit ==
  /\ InitDb
  /\ products \in InitProducts(ScarceStock)
  /\ env = LiveEnv

\* the paymentMethod of the orders of the stock specification
StockMethods == {"COD"}

StockNext ==
  \/ /\ nextId <= MaxOrders
     /\ \E u \in Buyers, items \in ItemLists, m \in StockMethods : addOrderItems(u, items, m)
  \/ \E u \in Requesters, id \in OrderIds : cancelOrder(u, id)
  \/ \E u \in Requesters, id \in OrderIds : abandonOrder(u, id)

StockSpec == StockInit /\ [][StockNext]_vars

(* ------- payment: create, verify, webhook, mark-paid, status, cancel --- *)
\* the orderItems of the orders of the payment specification
PayItemLists == {<<[product |-> "p1", qty |-> 1]>>}

\* the bodies of POST /api/payment/verify
\* the order ids a request of the payment specification may name
PayOrderIds == 1..(MaxPaidOrders + 1)

\* the paymentMethod of the orders of the payment specification
PayMethods == {"COD", "Online"}

\* the principals that confirm a payment: the buyer, another customer
Payers == {"u1", "u2"}

VerifyBodies ==
  [orderId : PayOrderIds, razorpay_order_id : {"order_A"}, razorpay_payment_id : {"pay_A"},
   razorpay_signature : {NoSignature,
                         Hmac(KeySecret, SignedText("order_A", "pay_A")),
                         Hmac("guess", SignedText("order_A", "pay_A"))}]

\* the bodies of POST /api/payment/webhook: event, payload.payment.entity.id,
\* .order_id and .notes.orderId
WebhookBodies ==
  [event : {"payment.captured", "payment.failed"}, id : {"pay_A"}, order_id : {"order_A"},
   orderId : PayOrderIds]

\* the x-razorpay-signature headers: none, or the digest of some body under the
\* webhook secret or under another key
WebhookSignatures ==
  {NoSignature} \cup {Hmac(k, Stringify(b)) : k \in {"whsec", "guess"}, b \in WebhookBodies}

\* the statuses of the bulk updates of the payment specification
PayBulkStatuses == {"shipped", "paid"}

\* the body of PUT /api/orders/:id/pay
PayBodies == {[id |-> "manual", status |-> "COMPLETED", update_time |-> NoDate]}

PayInit ==
  /\ InitDb
  /\ products \in {p \in InitProducts(AmpleStock) : p["p1"].inStock}
  /\ env \in Envs

\* a payment request may still append to the history of the order it names
MayAppend(id) == OrderFindById(id) => Len(orders[id].trackingHistory) < MaxHist

PayNext ==
  \/ /\ nextId <= MaxPaidOrders
     /\ \E u \in Buyers, items \in PayItemLists, m \in PayMethods : addOrderItems(u, items, m)
  \/ \E u \in Payers, body \in VerifyBodies, mock \in MockVerifications :
       MayAppend(body.orderId) /\ verifyPayment(u, body, mock)
  \/ \E sig \in WebhookSignatures, body \in WebhookBodies : handleWebhook(sig, body)
  \/ \E u \in Payers, id \in PayOrderIds, body \in PayBodies : updateOrderToPaid(u, id, body)
  \/ \E u \in Requesters, ids \in SUBSET (1..MaxPaidOrders), st \in PayBulkStatuses :
       updateOrdersStatus(u, ids, st)
  \/ \E u \in Requesters, id \in PayOrderIds : cancelOrder(u, id)
  \/ \E u \in Requesters, id \in PayOrderIds : abandonOrder(u, id)
  \/ Tick

PaySpec == PayInit /\ [][PayNext]_vars

(* ------------- cancellation: create, status, mark-paid, cancel --------- *)
\* the statuses of the bulk updates of the cancellation specification
CancelBulkStatuses == {"delivered", "shipped", "paid"}

CancelInit ==
  /\ InitDb
  /\ products \in {p \in InitProducts(AmpleStock) : p["p1"].inStock}
  /\ env = LiveEnv

CancelNext ==
  \/ /\ nextId <= MaxPaidOrders
     /\ \E u \in Buyers, items \in PayItemLists, m \in PayMethods : addOrderItems(u, items, m)
  \/ \E u \in Payers, id \in PayOrderIds, body \in PayBodies : updateOrderToPaid(u, id, body)
  \/ \E u \in Requesters, ids \in SUBSET (1..MaxPaidOrders), st \in CancelBulkStatuses :
       updateOrdersStatus(u, ids, st)
  \/ \E u \in Requesters, id \in PayOrderIds : cancelOrder(u, id)
  \/ Tick

CancelSpec == CancelInit /\ [][CancelNext]_vars

(* -------------- reconciliation: create, verify and webhook ------------ *)
ReconcileNext ==
  \/ /\ nextId <= MaxPaidOrders
     /\ \E u \in Buyers, items \in PayItemLists, m \in PayMethods : addOrderItems(u, items, m)
  \/ \E u \in Payers, body \in VerifyBodies, mock \in MockVerifications :
       MayAppend(body.orderId) /\ verifyPayment(u, body, mock)
  \/ \E sig \in WebhookSignatures, body \in WebhookBodies : handleWebhook(sig, body)
  \/ Tick

ReconcileSpec == PayInit /\ [][ReconcileNext]_vars

(* --------- returns: create, deliver, request-return, return status ---- *)
\* the statuses of the bulk updates of the return specification
ReturnBulkStatuses == {"delivered"}

\* the reason of a return request
ReturnReasons == {"damaged"}

\* the bodies of PUT /api/orders/:id/return
ReturnBodies ==
  [status : {"Approved", "Rejected", "Completed"}, reason : {Undefined},
   adminNote : {Undefined, "ok"}]

ReturnNext ==
  \/ /\ nextId <= MaxPaidOrders
     /\ \E u \in Buyers, items \in PayItemLists, m \in StockMethods : addOrderItems(u, items, m)
  \/ \E u \in {"adm1"}, ids \in SUBSET (1..MaxPaidOrders), st \in ReturnBulkStatuses :
       updateOrdersStatus(u, ids, st)
  \/ \E u \in Requesters, id \in PayOrderIds, reason \in ReturnReasons : requestReturn(u, id, reason)
  \/ \E u \in {"u1", "adm1"}, id \in PayOrderIds, body \in ReturnBodies :
       updateReturnStatus(u, id, body)
  \/ Elapse

ReturnSpec == CancelInit /\ [][ReturnNext]_vars

(* ------------------ bulk status: create and bulk update --------------- *)
\* the statuses of the bulk updates of the bulk specification
BulkStatuses == {"delivered", "shipped", "cancelled", "returned"}

BulkNext ==
  \/ /\ nextId <= MaxOrders
     /\ \E u \in Buyers, items \in PayItemLists, m \in StockMethods : addOrderItems(u, items, m)
  \/ \E u \in {"u1", "adm1"}, ids \in SUBSET OrderIds, st \in BulkStatuses :
       updateOrdersStatus(u, ids, st)
  \/ Tick

BulkSpec == CancelInit /\ [][BulkNext]_vars

(* --- lifecycle: create, cancel, status, verify, webhook, return flow --- *)
\* the statuses of the bulk updates of the lifecycle specification
LifecycleBulkStatuses == {"pending", "confirmed", "shipped", "delivered"}

\* the bodies of PUT /api/orders/:id/return of the lifecycle specification
LifecycleReturnBodies == [status : {"Completed"}, reason : {Undefined}, adminNote : {Undefined}]

\* the principals of the lifecycle specification: the buyer and an admin
LifecycleUsers == {"u1", "adm1"}

LifecycleNext ==
  \/ /\ nextId <= MaxPaidOrders
     /\ \E u \in Buyers, items \in PayItemLists, m \in PayMethods : addOrderItems(u, items, m)
  \/ \E u \in LifecycleUsers, id \in PayOrderIds : MayAppend(id) /\ cancelOrder(u, id)
  \/ \E u \in LifecycleUsers, ids \in SUBSET (1..MaxPaidOrders), st \in LifecycleBulkStatuses :
       updateOrdersStatus(u, ids, st)
  \/ \E u \in Buyers, body \in VerifyBodies, mock \in MockVerifications :
       MayAppend(body.orderId) /\ verifyPayment(u, body, mock)
  \/ \E sig \in WebhookSignatures, body \in WebhookBodies :
       MayAppend(body.orderId) /\ handleWebhook(sig, body)
  \/ \E u \in Buyers, id \in PayOrderIds, reason \in ReturnReasons : requestReturn(u, id, reason)
  \/ \E u \in LifecycleUsers, id \in PayOrderIds, body \in LifecycleReturnBodies :
       updateReturnStatus(u, id, body)
  \/ Tick

LifecycleSpec == PayInit /\ [][LifecycleNext]_vars

(* -- notification faults: create, cancel, deliver, return, verification - *)
\* the environments in which Notification.create may reject
FaultEnvs == {[e EXCEPT !.notificationsDown = d] : e \in Envs, d \in BOOLEAN}

FaultInit ==
  /\ InitDb
  /\ products \in {p \in InitProducts(AmpleStock) : p["p1"].inStock}
  /\ env \in FaultEnvs

FaultNext ==
  \/ /\ nextId <= MaxPaidOrders
     /\ \E u \in Buyers, items \in PayItemLists, m \in PayMethods : addOrderItems(u, items, m)
  \/ \E u \in LifecycleUsers, id \in PayOrderIds : MayAppend(id) /\ cancelOrder(u, id)
  \/ \E u \in LifecycleUsers, ids \in SUBSET (1..MaxPaidOrders), st \in ReturnBulkStatuses :
       updateOrdersStatus(u, ids, st)
  \/ \E u \in Buyers, body \in VerifyBodies, mock \in MockVerifications :
       MayAppend(body.orderId) /\ verifyPayment(u, body, mock)
  \/ \E u \in Buyers, id \in PayOrderIds, reason \in ReturnReasons : requestReturn(u, id, reason)
  \/ Tick

FaultSpec == FaultInit /\ [][FaultNext]_vars

(* ------------- mode selection: create and client verification -------- *)
\* the environments with paymentConfig.mode set independently of the credentials
ModeEnvs == {[e EXCEPT !.mode = m] : e \in Envs, m \in PaymentModes}

ModeInit ==
  /\ InitDb
  /\ products \in {p \in InitProducts(AmpleStock) : p["p1"].inStock}
  /\ env \in ModeEnvs

ModeNext ==
  \/ /\ nextId <= MaxPaidOrders
     /\ \E u \in Buyers, items \in PayItemLists, m \in PayMethods : addOrderItems(u, items, m)
  \/ \E u \in Payers, body \in VerifyBodies, mock \in MockVerifications :
       MayAppend(body.orderId) /\ verifyPayment(u, body, mock)
  \/ Tick

ModeSpec == ModeInit /\ [][ModeNext]_vars

(* ------------------- races: concurrent order creations --------------- *)
\* the orderItems of the concurrent creations: items that resolve
RaceItemLists == {items \in ItemLists : \A i \in 1..Len(items) : items[i].product \in
                                           ProductIds \cup AddOnIds}

RaceNext ==
  \/ /\ nextId + Cardinality(Creating) <= MaxOrders
     /\ \E r \in Slots, u \in Buyers, items \in RaceItemLists, m \in StockMethods :
          addOrderItemsReceive(r, u, items, m)
  \/ \E r \in Slots : addOrderItemsCheck(r)
  \/ \E r \in Slots : addOrderItemsSave(r)
  \/ \E r \in Slots : addOrderItemsDecrement(r)
  \/ \E r \in Slots : addOrderItemsRespond(r)

RaceSpec == StockInit /\ [][RaceNext]_vars

(* ---------------- overlap: concurrent payment confirmations ----------- *)
\* a confirmation arriving for order id finds room in its trackingHistory
\* beside the confirmations already in flight
MayConfirm(id) ==
  OrderFindById(id) => Len(orders[id].trackingHistory) + Cardinality(Confirming(id)) < MaxHist

OverlapNext ==
  \/ /\ nextId <= MaxPaidOrders
     /\ \E u \in Buyers, items \in PayItemLists, m \in PayMethods : addOrderItems(u, items, m)
  \/ \E r \in Slots, sig \in WebhookSignatures, body \in WebhookBodies :
       MayConfirm(body.orderId) /\ handleWebhookReceive(r, sig, body)
  \/ \E r \in Slots : handleWebhookLoad(r)
  \/ \E r \in Slots : handleWebhookSave(r)
  \/ \E r \in Slots, u \in Buyers, body \in VerifyBodies, mock \in MockVerifications :
       MayConfirm(body.orderId) /\ verifyPaymentReceive(r, u, body, mock)
  \/ \E r \in Slots : verifyPaymentLoad(r)
  \/ \E r \in Slots : verifyPaymentSave(r)

OverlapSpec == PayInit /\ [][OverlapNext]_vars

(* ------- binding: create, provider order and client verification ----- *)
\* the bodies of POST /api/payment/create-order
PaymentOrderBodies == [amount : {0, 100}, orderId : {NoOrder} \cup OrderIds]

\* the orders the provider may create
RazorpayOrders == [id : ProviderOrderIds, receipt : OrderIds]

\* the razorpay_payment_id of the payment of a provider order
PaymentOf(razorpay_order_id) == <<"pay", razorpay_order_id>>

\* the razorpay_signature the provider hands the payer of a provider order
ProviderSignature(razorpay_order_id) ==
  Hmac(KeySecret, SignedText(razorpay_order_id, PaymentOf(razorpay_order_id)))

\* the bodies of POST /api/payment/verify: any order of the shop with any
\* provider order, its payment and its signature or none
BindBodies ==
  {[orderId |-> id, razorpay_order_id |-> o, razorpay_payment_id |-> PaymentOf(o),
    razorpay_signature |-> IF signed THEN ProviderSignature(o) ELSE NoSignature] :
     id \in OrderIds, o \in ProviderOrderIds, signed \in BOOLEAN}

\* the provider signs a payment only for an order it has issued
Obtainable(body) ==
  body.razorpay_signature # NoSignature
  => body.razorpay_order_id \in {i.id : i \in issued}

BindInit ==
  /\ InitDb
  /\ products \in {p \in InitProducts(AmpleStock) : p["p1"].inStock}
  /\ env \in Envs

BindNext ==
  \/ /\ nextId <= MaxOrders
     /\ \E u \in Buyers, items \in PayItemLists : addOrderItems(u, items, "Online")
  \/ \E u \in Payers, body \in PaymentOrderBodies, ro \in RazorpayOrders, mo \in MockOrderIds :
       createPaymentOrder(u, body, ro, mo)
  \/ \E u \in Buyers, body \in BindBodies, mock \in MockVerifications :
       /\ MayAppend(body.orderId)
       /\ Obtainable(body)
       /\ verifyPayment(u, body, mock)

BindSpec == BindInit /\ [][BindNext]_vars

(* ------------------ overlap: concurrent cancel requests --------------- *)
CancelRaceNext ==
  \/ /\ nextId <= MaxPaidOrders
     /\ \E u \in Buyers, items \in RaceItemLists, m \in StockMethods :
          addOrderItems(u, items, m)
  \/ \E r \in Slots, u \in Requesters, id \in PayOrderIds : cancelOrderReceive(r, u, id)
  \/ \E r \in Slots : cancelOrderLoad(r)
  \/ \E r \in Slots : cancelOrderRestore(r)
  \/ \E r \in Slots : cancelOrderSave(r)

CancelRaceSpec == StockInit /\ [][CancelRaceNext]_vars

(* ------------------------- observers of the claims -------------------- *)
\* the items that have a stock
StockedIds == ProductIds \cup AddOnIds

\* inStock of the item id resolves to (FALSE when it resolves to nothing)
InStockOf(prods, id) ==
  IF ProductFindById(prods, id) THEN prods[id].inStock
  ELSE IF AddOnParents(prods, id) # {}
       THEN prods[CHOOSE q \in AddOnParents(prods, id) : TRUE].addOnItems[id].inStock
       ELSE FALSE

\* a line item that is unresolvable, not in stock, or short of stock
ItemFails(prods, item) ==
  \/ item.product \notin StockedIds
  \/ ~InStockOf(prods, item.product)
  \/ StockOf(prods, item.product) < item.qty

\* the items a list of line items references
Referenced(items) == {items[i].product : i \in 1..Len(items)}

(* -------------------------------- claims ------------------------------ *)
\* C1: no create request in which some line item, at any position, is
\* unresolvable, has inStock = false or has countInStock < qty changes the Order
\* collection or any product or add-on, or is answered without an error.
C1_FailedCheckIsAllOrNothing ==
  [][~ \E u \in Buyers, items \in ItemLists, m \in PaymentMethods :
         /\ res'.op = "addOrderItems"
         /\ orders' # orders \/ products' # products \/ ~res'.thrown
         /\ \E i \in 1..Len(items) : ItemFails(products, items[i])
         /\ addOrderItems(u, items, m)]_vars

\* C1 witness: the stock check rejected a create while an earlier order exists
C1_Witness ==
  /\ res.op = "addOrderItems"
  /\ res.thrown
  /\ res.message \in {CheckMessage(400), CheckMessage(404)}
  /\ DOMAIN orders # {}

\* C2: a successful create lowers the stock of each product and add-on by the
\* sum of the quantities of the line items that reference it, changes no other
\* stock, and adds exactly one order whose line items are the requested ones.
C2_CreateDecrementsBySum ==
  [][\A u \in Buyers, items \in ItemLists, m \in PaymentMethods :
       (res'.op = "addOrderItems" /\ res'.status = 201 /\ addOrderItems(u, items, m))
       => (/\ \A id \in StockedIds :
                /\ StockOf(products, id) - StockOf(products', id) = QtyOf(items, id)
                /\ InStockOf(products', id) = InStockOf(products, id)
           /\ nextId \notin DOMAIN orders
           /\ DOMAIN orders' = DOMAIN orders \cup {nextId}
           /\ orders'[nextId].orderItems = items
           /\ \A o \in DOMAIN orders : orders'[o] = orders[o])]_vars

\* C2 witness: an order was created whose two line items reference one product
C2_Witness ==
  /\ res.op = "addOrderItems"
  /\ res.status = 201
  /\ Len(orders[res.id].orderItems) = 2
  /\ orders[res.id].orderItems[1].product = orders[res.id].orderItems[2].product

\* C3: countInStock of every product and add-on is >= 0 in every state
\* reachable by create, cancel and abandon requests run one after the other.
C3_StockNeverNegative ==
  \A id \in StockedIds : StockOf(products, id) >= 0

\* C4: after a create and a successful cancel of that order with no request in
\* between, every product and add-on the order references has the stock it had
\* before the create.
C4_CancelRestoresStock ==
  created.cancelled =>
    \A id \in Referenced(orders[created.id].orderItems) :
      StockOf(products, id) = StockOf(created.before, id)

\* C4 witness: such a cancel happened on an order that references a primary
\* product and an add-on
C4_Witness ==
  /\ created.cancelled
  /\ res.op = "cancelOrder"
  /\ res.status = 200
  /\ Referenced(orders[created.id].orderItems) = StockedIds

\* the new-order notifications of order id: to its placer, to the admins
NewOrderTitles == {"Order Placed!", "New Order Received!"}

\* how many notifications with this title and order this user has
Count(user, title, id) == CopiesIn(Notification(user, title, id), notifications)

\* the paymentMethod strings that name the online gateway
OnlineMethods == {"Online", "Razorpay"}

\* C5: a cancel request on an order whose trackingStatus is delivered, shipped
\* or cancelled is answered by an error and leaves the order, every product
\* and the notifications as they were.
C5_CancelRejectedWhenTerminal ==
  [][\A u \in Requesters, id \in PayOrderIds :
       (/\ res'.op = "cancelOrder"
        /\ OrderFindById(id)
        /\ orders[id].trackingStatus \in {"delivered", "shipped", "cancelled"}
        /\ cancelOrder(u, id))
       => (/\ res'.thrown
           /\ res'.status \in {400, 401}
           /\ orders' = orders
           /\ products' = products
           /\ notifications' = notifications)]_vars

\* C5 witness: the owner's cancel of a paid, delivered order was rejected
C5_Witness ==
  /\ res.op = "cancelOrder"
  /\ res.status = 400
  /\ res.thrown
  /\ orders[res.id].trackingStatus = "delivered"
  /\ orders[res.id].isPaid

\* C6: no webhook request without signature header, with no webhook secret
\* configured, or with a signature other than the HMAC of its body under the
\* webhook secret changes an order, whatever its event and order id.
C6_UnsignedWebhookChangesNoOrder ==
  [][~ \E sig \in WebhookSignatures, body \in WebhookBodies :
         /\ res'.op = "handleWebhook"
         /\ orders' # orders
         /\ \/ sig = NoSignature
            \/ env.webhookSecret = ""
            \/ sig # Hmac(env.webhookSecret, Stringify(body))
         /\ handleWebhook(sig, body)]_vars

\* C6 witness: a webhook was refused for its signature while an unpaid order,
\* which a captured event would have marked paid, exists
C6_Witness ==
  /\ res.op = "handleWebhook"
  /\ res.message = "Invalid webhook signature"
  /\ \E o \in DOMAIN orders : ~orders[o].isPaid

\* C7: a correctly signed payment.captured webhook for an order that is already
\* paid leaves isPaid, paidAt, paymentResult, trackingStatus and trackingHistory
\* of that order as they were and is acknowledged.
C7_WebhookRedeliveryIsIdempotent ==
  [][\A sig \in WebhookSignatures, body \in WebhookBodies :
       (/\ res'.op = "handleWebhook"
        /\ env.webhookSecret # ""
        /\ sig = Hmac(env.webhookSecret, Stringify(body))
        /\ body.event = "payment.captured"
        /\ OrderFindById(body.orderId)
        /\ orders[body.orderId].isPaid
        /\ handleWebhook(sig, body))
       => (/\ res'.status = 200
           /\ ~res'.thrown
           /\ orders'[body.orderId].isPaid = orders[body.orderId].isPaid
           /\ orders'[body.orderId].paidAt = orders[body.orderId].paidAt
           /\ orders'[body.orderId].paymentResult = orders[body.orderId].paymentResult
           /\ orders'[body.orderId].trackingStatus = orders[body.orderId].trackingStatus
           /\ orders'[body.orderId].trackingHistory = orders[body.orderId].trackingHistory)]_vars

\* C7 witness: a signed webhook was acknowledged at a later time than the
\* payment of an order that was paid without a webhook
C7_Witness ==
  /\ res.op = "handleWebhook"
  /\ res.status = 200
  /\ \E o \in DOMAIN orders :
       /\ orders[o].isPaid
       /\ orders[o].paidAt < now
       /\ orders[o].trackingStatus = "pending"

\* C8: a valid verification request for an order that is already paid leaves
\* paidAt, paymentResult and trackingHistory as they were and creates no
\* notification.
C8_VerifyIsIdempotentWhenPaid ==
  [][\A u \in Payers, body \in VerifyBodies, mock \in MockVerifications :
       (/\ res'.op = "verifyPayment"
        /\ OrderFindById(body.orderId)
        /\ orders[body.orderId].isPaid
        /\ Verification(body, mock).isValid
        /\ verifyPayment(u, body, mock))
       => (/\ orders'[body.orderId].paidAt = orders[body.orderId].paidAt
           /\ orders'[body.orderId].paymentResult = orders[body.orderId].paymentResult
           /\ orders'[body.orderId].trackingHistory = orders[body.orderId].trackingHistory
           /\ notifications' = notifications)]_vars

\* C9: over create, verification and webhook requests, once an online order is
\* paid its placer has exactly one "Order Placed!" notification and each
\* opted-in admin exactly one "New Order Received!" notification of it, and no
\* user ever has more than one new-order notification of one order.
C9_DeferredNotificationsExactlyOnce ==
  \A o \in DOMAIN orders :
    orders[o].paymentMethod \in OnlineMethods =>
      /\ orders[o].isPaid =>
           /\ Count(orders[o].user, "Order Placed!", o) = 1
           /\ \A a \in AdminsNotified("orderAlerts") : Count(a, "New Order Received!", o) = 1
      /\ \A u \in Users, t \in NewOrderTitles : Count(u, t, o) <= 1

\* C10: no new-order notification exists of an order placed with an online
\* payment method while that order is unpaid.
C10_NoNewOrderNotificationWhileUnpaid ==
  \A o \in DOMAIN orders :
    (orders[o].paymentMethod \in OnlineMethods /\ ~orders[o].isPaid) =>
      \A u \in Users, t \in NewOrderTitles : Count(u, t, o) = 0

\* C10 witness: an online order was cancelled unpaid, and its cancellation
\* was notified
C10_Witness ==
  \E o \in DOMAIN orders :
    /\ orders[o].paymentMethod \in OnlineMethods
    /\ ~orders[o].isPaid
    /\ orders[o].trackingStatus = "cancelled"
    /\ Count(orders[o].user, "Order Cancelled", o) = 1

\* the notifications titled title about order id that this step creates for user
Created(user, title, id) ==
  CopiesIn(Notification(user, title, id), notifications')
  - CopiesIn(Notification(user, title, id), notifications)

\* C11: a successful cash-on-delivery create makes exactly one "Order Placed!"
\* notification for the owner, exactly one "New Order Received!" for each admin
\* whose orderAlerts is not explicitly false (absent counts as enabled), none
\* for an admin whose orderAlerts is false, and no other new-order
\* notification; a successful online-payment create makes no notification.
C11_CodCreateNotifiesOwnerAndAdmins ==
  [][\A u \in Buyers, items \in PayItemLists, m \in PayMethods :
       (/\ res'.op = "addOrderItems"
        /\ res'.status = 201
        /\ addOrderItems(u, items, m))
       => IF m \in OnlineMethods
          THEN notifications' = notifications
          ELSE \A x \in Users :
                 /\ Created(x, "Order Placed!", nextId) = (IF x = u THEN 1 ELSE 0)
                 /\ Created(x, "New Order Received!", nextId) =
                      (IF User[x].role = "admin" /\ User[x].orderAlerts # "false"
                       THEN 1 ELSE 0)]_vars

\* a cash-on-delivery order was just created: the admin without a preference
\* object has its notification, the admin with orderAlerts false has none
C11_Witness ==
  /\ res.op = "addOrderItems"
  /\ res.status = 201
  /\ OrderFindById(res.id)
  /\ orders[res.id].paymentMethod = "COD"
  /\ Count(orders[res.id].user, "Order Placed!", res.id) = 1
  /\ Count("adm1", "New Order Received!", res.id) = 1
  /\ Count("adm2", "New Order Received!", res.id) = 0

\* C12: for a delivered order owned by the requester with returnStatus None, a
\* return request is accepted when the whole number of days elapsed since
\* deliveredAt is at most 7 (exactly 7 included), and rejected with status 400
\* and the order unchanged when it is 8 or more.
C12_ReturnWindowIsSevenWholeDays ==
  [][\A u \in Payers, id \in PayOrderIds, reason \in ReturnReasons :
       (/\ res'.op = "requestReturn"
        /\ OrderFindById(id)
        /\ orders[id].user = u
        /\ orders[id].trackingStatus = "delivered"
        /\ orders[id].deliveredAt # NoDate
        /\ orders[id].returnStatus = "None"
        /\ requestReturn(u, id, reason))
       => IF (now - orders[id].deliveredAt) \div DayLength <= 7
          THEN /\ ~res'.thrown
               /\ orders'[id].returnStatus = "Requested"
               /\ orders'[id].returnReason = reason
          ELSE /\ res'.thrown
               /\ res'.status = 400
               /\ orders' = orders]_vars

\* a return request was accepted seven and a half days after the delivery
C12_Witness ==
  /\ res.op = "requestReturn"
  /\ ~res.thrown
  /\ OrderFindById(res.id)
  /\ orders[res.id].returnStatus = "Requested"
  /\ now - orders[res.id].deliveredAt = 7 * DayLength + 1

\* the order is already delivered with the timestamp a bulk update would write
DeliveredNow(order) ==
  order.isDelivered /\ order.deliveredAt = now /\ order.trackingStatus = "delivered"

\* a bulk update with status "delivered" by an admin over a non-empty list
\* sets isDelivered, deliveredAt and trackingStatus = "delivered" on every
\* listed order and changes no order outside the list
BulkDeliveredApplies(ids) ==
  /\ DOMAIN orders' = DOMAIN orders
  /\ \A id \in DOMAIN orders :
       IF id \in ids
       THEN /\ orders'[id].isDelivered
            /\ orders'[id].deliveredAt = now
            /\ orders'[id].trackingStatus = "delivered"
       ELSE orders'[id] = orders[id]

\* C13 (as stated): a bulk update with status "delivered" sets isDelivered,
\* deliveredAt and trackingStatus = "delivered" on every listed order, changes
\* no order outside the list, and reports modifiedCount equal to the number of
\* listed orders that exist.
C13_BulkDeliveredCountsListed ==
  [][\A ids \in SUBSET OrderIds :
       (/\ res'.op = "updateOrdersStatus"
        /\ ids # {}
        /\ updateOrdersStatus("adm1", ids, "delivered"))
       => /\ BulkDeliveredApplies(ids)
          /\ res'.modifiedCount = Cardinality(ids \cap DOMAIN orders)]_vars

\* C13 (amended): the same update of the listed orders, reporting modifiedCount
\* equal to the number of listed orders that exist and that the update changes:
\* an order already delivered with the same deliveredAt is matched, not counted.
C13_BulkDeliveredCountsModified ==
  [][\A ids \in SUBSET OrderIds :
       (/\ res'.op = "updateOrdersStatus"
        /\ ids # {}
        /\ updateOrdersStatus("adm1", ids, "delivered"))
       => /\ BulkDeliveredApplies(ids)
          /\ res'.modifiedCount =
               Cardinality({id \in ids \cap DOMAIN orders : ~DeliveredNow(orders[id])})]_vars

\* a bulk update just delivered both orders and reported two
C13_Witness ==
  /\ res.op = "updateOrdersStatus"
  /\ res.modifiedCount = 2
  /\ \A id \in 1..2 : OrderFindById(id) /\ orders[id].trackingStatus = "delivered"
                         /\ orders[id].deliveredAt = now

\* the linear progression of trackingStatus
Progression ==
  <<"pending", "confirmed", "processing", "shipped", "out_for_delivery", "delivered">>

\* a change of trackingStatus the state machine allows
AllowedStep(old, new) ==
  \/ \E i \in 1..(Len(Progression) - 1) : old = Progression[i] /\ new = Progression[i + 1]
  \/ new = "cancelled" /\ old \notin {"delivered", "shipped", "cancelled"}
  \/ old = "delivered" /\ new = "returned"

\* C14: over create, cancel, bulk status update, client verification, webhook,
\* return-request and return-status-update requests, every change of an order's
\* trackingStatus is a step to the immediate successor in the progression, a
\* step to cancelled from a status other than delivered, shipped or cancelled,
\* or delivered to returned.
C14_TrackingStatusFollowsStateMachine ==
  [][\A id \in DOMAIN orders \cap DOMAIN orders' :
       orders'[id].trackingStatus # orders[id].trackingStatus
       => AllowedStep(orders[id].trackingStatus, orders'[id].trackingStatus)]_vars

\* s is a prefix of t
IsPrefix(s, t) == Len(s) <= Len(t) /\ SubSeq(t, 1, Len(s)) = s

\* C15: every step that keeps an order leaves its previous trackingHistory as
\* an unchanged prefix of the new one.
C15_TrackingHistoryIsAppendOnly ==
  [][\A id \in DOMAIN orders \cap DOMAIN orders' :
       IsPrefix(orders[id].trackingHistory, orders'[id].trackingHistory)]_vars

\* an order whose history was appended to twice, by different handlers
C15_Witness ==
  \E id \in DOMAIN orders :
    /\ Len(orders[id].trackingHistory) = 2
    /\ orders[id].trackingHistory[1].status # orders[id].trackingHistory[2].status

\* the requests whose notifications follow a committed order mutation
NotifyingOps == {"addOrderItems", "cancelOrder", "requestReturn", "verifyPayment"}

\* C16: when create, cancel, return request or client verification has
\* persisted its order mutation and the notification creation that follows
\* fails, the request still answers with its success response.
C16_NotificationFailureKeepsSuccess ==
  [][(/\ env.notificationsDown
      /\ res'.op \in NotifyingOps
      /\ orders' # orders)
     => (~res'.thrown /\ res'.status \in {200, 201})]_vars

\* the HMAC-SHA256 of "{providerOrderId}|{paymentId}" under the provider secret
ExpectedSign(body) ==
  Hmac(KeySecret, SignedText(body.razorpay_order_id, body.razorpay_payment_id))

\* C17: when client verification compares the supplied signature with the
\* expected HMAC and finds it different, every order is left as it was, no
\* notification is created and the response is status 400, not an error.
C17_BadSignatureIsRejectedNotFatal ==
  [][\A u \in Payers, body \in VerifyBodies, mock \in MockVerifications :
       (/\ res'.op = "verifyPayment"
        /\ env.live
        /\ OrderFindById(body.orderId)
        /\ body.razorpay_signature # NoSignature
        /\ body.razorpay_signature # ExpectedSign(body)
        /\ verifyPayment(u, body, mock))
       => /\ orders' = orders
          /\ notifications' = notifications
          /\ products' = products
          /\ res'.status = 400
          /\ ~res'.thrown]_vars

\* a verification of an existing unpaid order was just rejected with the
\* credentials configured
C17_Witness ==
  /\ res.op = "verifyPayment"
  /\ res.status = 400
  /\ res.message = "Invalid payment signature"
  /\ env.live
  /\ OrderFindById(res.id)
  /\ ~orders[res.id].isPaid

\* C18: with the provider credentials configured, a client verification
\* changes an order only when the request carries the expected HMAC; a request
\* without a signature never reaches the simulator and marks nothing paid.
C18_LiveModeRequiresSignature ==
  [][\A u \in Payers, body \in VerifyBodies, mock \in MockVerifications :
       (/\ res'.op = "verifyPayment"
        /\ env.live
        /\ orders' # orders \/ res'.status = 200
        /\ verifyPayment(u, body, mock))
       => body.razorpay_signature = ExpectedSign(body)]_vars

\* C19: a business-rule rejection of a create reaches the caller, through the
\* catch block and the global error handler, with the status the controller
\* attached: 400 for insufficient stock, 404 for an unknown product.
C19_CreateRejectionKeepsStatus ==
  (res.op = "addOrderItems" /\ res.thrown /\ res.status \in {400, 404})
  => GlobalErrorHandler(ThrownError(res)).status = res.status

\* C20: a correctly signed payment.captured webhook for an existing unpaid
\* order sets isPaid, sets paymentResult.status to completed with the provider
\* payment id, sets trackingStatus to confirmed and appends exactly one
\* trackingHistory entry, of status confirmed; no other order and no stock
\* changes.
C20_SignedCaptureMarksPaidAndConfirmed ==
  [][\A sig \in WebhookSignatures, body \in WebhookBodies :
       (/\ res'.op = "handleWebhook"
        /\ body.event = "payment.captured"
        /\ env.webhookSecret # ""
        /\ sig = Hmac(env.webhookSecret, Stringify(body))
        /\ OrderFindById(body.orderId)
        /\ ~orders[body.orderId].isPaid
        /\ handleWebhook(sig, body))
       => /\ DOMAIN orders' = DOMAIN orders
          /\ orders'[body.orderId].isPaid
          /\ orders'[body.orderId].paymentResult.status = "completed"
          /\ orders'[body.orderId].paymentResult.id = body.id
          /\ orders'[body.orderId].trackingStatus = "confirmed"
          /\ Len(orders'[body.orderId].trackingHistory)
               = Len(orders[body.orderId].trackingHistory) + 1
          /\ IsPrefix(orders[body.orderId].trackingHistory,
                      orders'[body.orderId].trackingHistory)
          /\ orders'[body.orderId].trackingHistory[
                Len(orders'[body.orderId].trackingHistory)].status = "confirmed"
          /\ \A id \in DOMAIN orders \ {body.orderId} : orders'[id] = orders[id]
          /\ products' = products]_vars

\* a webhook was just answered ok and left a paid, confirmed order whose last
\* history entry is the webhook's
C20_Witness ==
  /\ res.op = "handleWebhook"
  /\ res.status = 200
  /\ \E id \in DOMAIN orders :
       /\ orders[id].isPaid
       /\ orders[id].paymentResult.id = "pay_A"
       /\ orders[id].trackingStatus = "confirmed"
       /\ orders[id].trackingHistory # <<>>
       /\ orders[id].trackingHistory[Len(orders[id].trackingHistory)].message
            = "Order confirmed via Webhook"

\* the last entry of a non-empty trackingHistory
LastEntry(order) == order.trackingHistory[Len(order.trackingHistory)]

\* C21: a successful client verification sets isPaid and paymentResult.status
\* = completed, appends exactly one trackingHistory entry, of status pending,
\* and leaves trackingStatus, returnStatus, the line items and every product's
\* countInStock as they were.
C21_VerificationFrame ==
  [][\A u \in Payers, body \in VerifyBodies, mock \in MockVerifications :
       (/\ res'.op = "verifyPayment"
        /\ res'.status = 200
        /\ verifyPayment(u, body, mock))
       => /\ orders'[body.orderId].isPaid
          /\ orders'[body.orderId].paymentResult.status = "completed"
          /\ orders'[body.orderId].trackingHistory =
               Append(orders[body.orderId].trackingHistory, LastEntry(orders'[body.orderId]))
          /\ LastEntry(orders'[body.orderId]).status = "pending"
          /\ orders'[body.orderId].trackingStatus = orders[body.orderId].trackingStatus
          /\ orders'[body.orderId].returnStatus = orders[body.orderId].returnStatus
          /\ orders'[body.orderId].orderItems = orders[body.orderId].orderItems
          /\ products' = products]_vars

\* a verification just succeeded on an order that had been shipped
C21_Witness ==
  /\ res.op = "verifyPayment"
  /\ res.status = 200
  /\ OrderFindById(res.id)
  /\ orders[res.id].isPaid
  /\ orders[res.id].trackingStatus = "shipped"
  /\ LastEntry(orders[res.id]).status = "pending"

\* C22: a return request changes the order only when the requester is the
\* owning user, trackingStatus is delivered and returnStatus is None, and then
\* only returnStatus (to Requested) and returnReason; when one of these fails
\* (an admin who is not the owner, a return already Requested, Approved,
\* Rejected or Completed) the request is rejected, every order is as it was
\* and no notification is created.
C22_ReturnRequestPreconditions ==
  [][\A u \in Requesters, id \in PayOrderIds, reason \in ReturnReasons :
       (/\ res'.op = "requestReturn"
        /\ OrderFindById(id)
        /\ requestReturn(u, id, reason))
       => IF /\ orders[id].user = u
             /\ orders[id].trackingStatus = "delivered"
             /\ orders[id].returnStatus = "None"
          THEN orders' # orders
               => orders' = [orders EXCEPT ![id].returnStatus = "Requested",
                                           ![id].returnReason = reason]
          ELSE /\ res'.thrown
               /\ res'.status \in {400, 401}
               /\ orders' = orders
               /\ notifications' = notifications]_vars

\* an admin who is not the owner was just refused the return of a delivered
\* order that has no return yet
C22_Witness ==
  /\ res.op = "requestReturn"
  /\ res.status = 401
  /\ OrderFindById(res.id)
  /\ orders[res.id].trackingStatus = "delivered"
  /\ orders[res.id].returnStatus = "None"
  /\ Count("adm1", "New Return Request", res.id) = 0

\* C23: an order's trackingStatus becomes returned only by the admin
\* return-status update, and only for an order that was delivered and whose
\* owner's return request was accepted earlier.
C23_ReturnedOnlyAfterAcceptedReturn ==
  [][\A id \in DOMAIN orders \cap DOMAIN orders' :
       (orders'[id].trackingStatus = "returned" /\ orders[id].trackingStatus # "returned")
       => /\ res'.op = "updateReturnStatus"
          /\ orders[id].isDelivered
          /\ Count("adm1", "New Return Request", id) >= 1]_vars

\* C24: a successful cancel sets trackingStatus to cancelled and appends
\* exactly one trackingHistory entry, of status cancelled; paymentResult.status
\* becomes refund_pending if and only if the order was paid at that time, and
\* isPaid is left as it was.
C24_CancelMarksRefundOnlyWhenPaid ==
  [][\A u \in Requesters, id \in PayOrderIds :
       (/\ res'.op = "cancelOrder"
        /\ ~res'.thrown
        /\ cancelOrder(u, id))
       => /\ orders'[id].trackingStatus = "cancelled"
          /\ orders'[id].trackingHistory =
               Append(orders[id].trackingHistory, LastEntry(orders'[id]))
          /\ LastEntry(orders'[id]).status = "cancelled"
          /\ (orders'[id].paymentResult.status = "refund_pending") <=> orders[id].isPaid
          /\ orders'[id].isPaid = orders[id].isPaid]_vars

\* a paid order was just cancelled and carries the refund flag
C24_Witness ==
  /\ res.op = "cancelOrder"
  /\ ~res.thrown
  /\ OrderFindById(res.id)
  /\ orders[res.id].isPaid
  /\ orders[res.id].trackingStatus = "cancelled"
  /\ orders[res.id].paymentResult.status = "refund_pending"

\* C25: abandon on an existing order adds each line item's quantity back to
\* the countInStock of the product or add-on it references and deletes the
\* order record, leaving the other orders alone; abandon on an order that does
\* not exist changes no stock and no order.
C25_AbandonRestoresAndDeletes ==
  [][\A u \in Requesters, id \in OrderIds :
       (/\ res'.op = "abandonOrder"
        /\ abandonOrder(u, id))
       => IF OrderFindById(id)
          THEN /\ \A x \in StockedIds :
                    StockOf(products', x) = StockOf(products, x) + QtyOf(orders[id].orderItems, x)
               /\ DOMAIN orders' = DOMAIN orders \ {id}
               /\ \A o \in DOMAIN orders' : orders'[o] = orders[o]
          ELSE /\ products' = products
               /\ orders' = orders]_vars

\* an order was just abandoned and deleted while the other order remains, and
\* the add-on has more stock than the catalog started with
C25_Witness ==
  /\ res.op = "abandonOrder"
  /\ res.status = 200
  /\ ~OrderFindById(res.id)
  /\ DOMAIN orders # {}
  /\ StockOf(products, "a1") > MaxQty - 1

\* the statuses updateOrdersStatus knows
KnownBulkStatuses ==
  {"delivered", "paid", "pending", "confirmed", "processing", "shipped", "out_for_delivery"}

InitialStock(x) == IF x \in ProductIds THEN 2 * MaxQty - 1 ELSE MaxQty - 1

\* the total quantity of item x in the orders 1..k that exist and are not cancelled
RECURSIVE Reserved(_, _)
Reserved(k, x) ==
  IF k = 0 THEN 0
  ELSE (IF OrderFindById(k) /\ orders[k].trackingStatus # "cancelled"
        THEN QtyOf(orders[k].orderItems, x) ELSE 0)
       + Reserved(k - 1, x)

\* C30: after any sequence of create, cancel and abandon requests, for every
\* product and add-on the current countInStock plus the total quantity of it in
\* the existing orders that are not cancelled equals its initial countInStock.
C30_StockIsConserved ==
  \A x \in StockedIds : StockOf(products, x) + Reserved(nextId - 1, x) = InitialStock(x)

\* C27: whatever the interleaving of concurrent creations, once they have all
\* finished the countInStock of every product and add-on is its initial value
\* minus the quantities of the line items of all created orders: no decrement
\* is lost.
C27_NoDecrementIsLost ==
  Quiescent
  => \A x \in StockedIds : StockOf(products, x) = InitialStock(x) - Reserved(nextId - 1, x)

\* every creation has finished: two orders exist that reserve 2 * MaxQty of
\* the product between them, and its stock is that much below the initial one
C27_Witness ==
  /\ Quiescent
  /\ DOMAIN orders = 1..MaxOrders
  /\ Reserved(nextId - 1, "p1") = 2 * MaxQty
  /\ StockOf(products, "p1") = InitialStock("p1") - 2 * MaxQty

\* the order holds one line item, for primary product p
OneLine(order, p) == Len(order.orderItems) = 1 /\ order.orderItems[1].product = p

\* C28: nothing between the check and the decrement of a creation keeps
\* another creation from passing its own check: when two creations for the
\* same product, each within stock alone but not together, have both been
\* saved and have both decremented, countInStock is below zero.
C28_OversellWhenBothPass ==
  (/\ Quiescent
   /\ DOMAIN orders = {1, 2}
   /\ \A id \in {1, 2} : /\ OneLine(orders[id], "p1")
                           /\ orders[id].orderItems[1].qty <= InitialStock("p1")
   /\ orders[1].orderItems[1].qty + orders[2].orderItems[1].qty > InitialStock("p1"))
  => StockOf(products, "p1") < 0

\* both creations were answered 201 and the product is oversold
C28_Witness ==
  /\ Quiescent
  /\ res.op = "addOrderItems"
  /\ res.status = 201
  /\ DOMAIN orders = {1, 2}
  /\ \A id \in {1, 2} : OneLine(orders[id], "p1") /\ orders[id].orderItems[1].qty = MaxQty
  /\ StockOf(products, "p1") < 0

\* the trackingHistory entries of the order that carry this message
EntriesWith(order, message) ==
  {i \in 1..Len(order.trackingHistory) : order.trackingHistory[i].message = message}

\* C29: whatever the interleaving of overlapping confirmations of one unpaid
\* order, once they have finished the order that any of them confirmed is
\* paid, webhook processing has appended at most one confirmed entry to its
\* trackingHistory, and every successful client verification has its entry.
C29_ConfirmationAppliedOnce ==
  Quiescent
  => \A id \in DOMAIN orders :
       /\ Cardinality(EntriesWith(orders[id], "Order confirmed via Webhook")) <= 1
       /\ orders[id].trackingHistory # <<>> => orders[id].isPaid
       /\ Cardinality(EntriesWith(orders[id], "Order placed and payment received"))
            >= Count(orders[id].user, "payment:success", id)

\* C31: a cancel, abandon, mark-paid or client payment verification sent by
\* an authenticated user who is neither the owner of the order it names nor
\* an admin leaves every order and every stock unchanged.
C31_OnlyOwnerOrAdminMutates ==
  [][\A u \in Users, id \in DOMAIN orders :
       (orders[id].user # u /\ User[u].role # "admin")
       => /\ cancelOrder(u, id) => (orders' = orders /\ products' = products)
          /\ abandonOrder(u, id) => (orders' = orders /\ products' = products)
          /\ \A body \in PayBodies :
               updateOrderToPaid(u, id, body) => (orders' = orders /\ products' = products)
          /\ \A body \in VerifyBodies, mock \in MockVerifications :
               (body.orderId = id /\ verifyPayment(u, body, mock))
               => (orders' = orders /\ products' = products)]_vars

\* C32: with provider credentials configured, a client verification that
\* marks an order paid carries a provider order id that createPaymentOrder
\* issued for that very order.
C32_VerificationBoundToOrder ==
  [][\A id \in DOMAIN orders :
       (/\ env.live
        /\ res'.op = "verifyPayment"
        /\ res'.id = id
        /\ orders'[id] # orders[id]
        /\ orders'[id].isPaid)
       => [id |-> orders'[id].paymentResult.razorpay_order_id, receipt |-> id] \in issued]_vars

\* C33: while an order exists, isPaid never goes from true back to false,
\* whatever request is served (cancel and bulk status update included), and
\* every order with isPaid true has its paidAt set.
C33_PaidIsMonotonic ==
  [][\A id \in DOMAIN orders' :
       /\ orders'[id].isPaid => orders'[id].paidAt # NoDate
       /\ (id \in DOMAIN orders /\ orders[id].isPaid) => orders'[id].isPaid]_vars

\* a paid order was cancelled and then listed in a bulk status update that
\* changed it: it is still paid, with its paidAt and a pending refund
C33_Witness ==
  /\ res.op = "updateOrdersStatus"
  /\ res.modifiedCount >= 1
  /\ \E id \in DOMAIN orders :
       /\ orders[id].isPaid
       /\ orders[id].paidAt # NoDate
       /\ orders[id].paymentResult.status = "refund_pending"
       /\ orders[id].trackingStatus = "shipped"

\* C34: whatever the interleaving of overlapping cancel requests for one
\* order, once they have finished a cancelled order has exactly one cancelled
\* entry in its trackingHistory and the quantities of its line items were
\* added back to stock exactly once.
C34_CancelAppliedOnce ==
  Quiescent
  => \A id \in DOMAIN orders :
       orders[id].trackingStatus = "cancelled"
       => /\ Cardinality({i \in 1..Len(orders[id].trackingHistory) :
                            orders[id].trackingHistory[i].status = "cancelled"}) = 1
          /\ \A x \in StockedIds :
               StockOf(products, x) = InitialStock(x) - Reserved(nextId - 1, x)

====
